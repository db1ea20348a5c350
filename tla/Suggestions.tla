---------------------------- MODULE Suggestions ----------------------------
(***************************************************************************)
(* services/suggestion_manager.go over the suggestions table of            *)
(* database/storage.go: the agent suggests, the human accepts or dismisses *)
(* (controllers/suggestion_controller.go), the sweeper expires what is     *)
(* overdue and the daily cleanup deletes what is old.  Each statement is   *)
(* one step of the database.  ReconcileOutcomes has no caller.             *)
(***************************************************************************)
CONSTANT Ideas  \* what the agent suggests

VARIABLES
  table,    \* the status of each row; "none" before it, "deleted" after it
  overdue,  \* the suggestions past their ExpiresAt
  old,      \* the suggestions past the retention
  swept,    \* what sweepExpired listed as PENDING and has not visited yet
  sweepAt,  \* "idle", "listed" or "visiting"
  late,     \* what was overdue at the sweep's now
  inTime    \* auxiliary: the human's last answer before ExpiresAt, or "none"

suggestionVars == <<table, overdue, old, swept, sweepAt, late, inTime>>

Decisions == {"ACCEPTED", "DISMISSED"}
Resolved == Decisions \union {"EXPIRED"}
Rows == {s \in Ideas : table[s] \notin {"none", "deleted"}}
Pending == {s \in Ideas : table[s] = "PENDING"}

SuggestionTypeOK ==
  /\ table \in [Ideas -> Resolved \union {"none", "PENDING", "deleted"}]
  /\ overdue \subseteq Ideas /\ old \subseteq overdue
  /\ swept \subseteq Ideas /\ late \subseteq overdue
  /\ sweepAt \in {"idle", "listed", "visiting"}
  /\ inTime \in [Ideas -> Decisions \union {"none"}]

SuggestionInit ==
  /\ table = [s \in Ideas |-> "none"]
  /\ overdue = {} /\ old = {} /\ swept = {} /\ late = {}
  /\ sweepAt = "idle"
  /\ inTime = [s \in Ideas |-> "none"]

\* UpdateSuggestionStatus: the row with this id, if there is one, whatever
\* its status is.
UpdateStatus(s, status) ==
  table' = IF s \in Rows THEN [table EXCEPT ![s] = status] ELSE table

-----------------------------------------------------------------------------
(* The agent, the human and the clock *)

\* CreateSuggestion, with a fresh id.
CreateSuggestion(s) ==
  /\ table[s] = "none"
  /\ table' = [table EXCEPT ![s] = "PENDING"]
  /\ UNCHANGED <<overdue, old, swept, sweepAt, late, inTime>>

\* AcceptSuggestion and DismissSuggestion of an id the page shows.
Decide(s, d) ==
  /\ table[s] # "none"
  /\ UpdateStatus(s, d)
  /\ inTime' = IF s \in Rows \ overdue THEN [inTime EXCEPT ![s] = d] ELSE inTime
  /\ UNCHANGED <<overdue, old, swept, sweepAt, late>>

\* 24 hours after the suggestion; then the retention of the cleanup.
PassTTL(s) ==
  /\ s \in Rows \ overdue
  /\ overdue' = overdue \union {s}
  /\ UNCHANGED <<table, old, swept, sweepAt, late, inTime>>

PassRetention(s) ==
  /\ s \in (Rows \intersect overdue) \ old
  /\ old' = old \union {s}
  /\ UNCHANGED <<table, overdue, swept, sweepAt, late, inTime>>

\* CleanupOldData keeps what is PENDING, however old.
CleanupOldData ==
  /\ table' = [s \in Ideas |-> IF s \in (old \intersect Rows) \ Pending THEN "deleted" ELSE table[s]]
  /\ UNCHANGED <<overdue, old, swept, sweepAt, late, inTime>>

-----------------------------------------------------------------------------
(* The sweeper: one tick of its 30 seconds *)

ListPending ==
  /\ sweepAt = "idle"
  /\ swept' = Pending
  /\ sweepAt' = "listed"
  /\ UNCHANGED <<table, overdue, old, late, inTime>>

\* Mutant: Before in the place of After.
TakeNow_Before ==
  /\ sweepAt = "listed"
  /\ late' = Ideas \ overdue
  /\ sweepAt' = "visiting"
  /\ UNCHANGED <<table, overdue, old, swept, inTime>>

TakeNow ==
  /\ sweepAt = "listed"
  /\ late' = overdue
  /\ sweepAt' = "visiting"
  /\ UNCHANGED <<table, overdue, old, swept, inTime>>

\* The next one of the list is overdue, and is so written.
Expire(s) ==
  /\ sweepAt = "visiting"
  /\ s \in swept \intersect late
  /\ UpdateStatus(s, "EXPIRED")
  /\ swept' = swept \ {s}
  /\ UNCHANGED <<overdue, old, sweepAt, late, inTime>>

\* It is not overdue, or the update fails, which is ignored.
SkipIdea(s) ==
  /\ sweepAt = "visiting"
  /\ s \in swept
  /\ swept' = swept \ {s}
  /\ UNCHANGED <<table, overdue, old, sweepAt, late, inTime>>

EndSweep ==
  /\ sweepAt = "visiting"
  /\ swept = {}
  /\ sweepAt' = "idle"
  /\ late' = {}
  /\ UNCHANGED <<table, overdue, old, swept, inTime>>

Sweeper == ListPending \/ TakeNow \/ EndSweep \/ \E s \in Ideas : Expire(s) \/ SkipIdea(s)

SuggestionNext ==
  \/ \E s \in Ideas : CreateSuggestion(s) \/ PassTTL(s) \/ PassRetention(s)
  \/ \E s \in Ideas, d \in Decisions : Decide(s, d)
  \/ CleanupOldData
  \/ Sweeper

\* The ticker fires for ever; the database does not fail for ever.
SweeperFairness ==
  /\ WF_suggestionVars(Sweeper)
  /\ \A s \in Ideas : SF_suggestionVars(Expire(s))

-----------------------------------------------------------------------------
(* Properties *)

\* A suggestion that nobody answers does not stay PENDING past its time,
\* whatever sweeps failed or came between its listing and its visit.
PendingEnds ==
  [](\A s \in Ideas : (s \in Pending /\ s \in overdue) => <>(s \notin Pending))

\* Not kept by the code: what the human decided in time stands.  The sweeper
\* writes EXPIRED over a decision made between its listing and its visit.
DecisionStands ==
  [][\A s \in Ideas : (inTime[s] # "none" /\ table[s] = inTime[s]) => table'[s] # "EXPIRED"]_suggestionVars

=============================================================================
