----------------------- MODULE MCIntentAuthorization -----------------------
(***************************************************************************)
(* The properties of IntentAuthorization and the instances TLC checks.     *)
(***************************************************************************)
EXTENDS IntentAuthorizationProperties, TLC

Symmetry == Permutations(Intents) \union Permutations(Handlers)

=============================================================================
