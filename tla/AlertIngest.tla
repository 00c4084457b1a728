---------------------------- MODULE AlertIngest ----------------------------
(***************************************************************************)
(* The way of an alert from the webhook to the pipeline: the intake and    *)
(* the correlator, joined by the goroutine of Pipeline.ProcessAlert, and   *)
(* the shutdown sequence of main.  One clock serves all of them.           *)
(***************************************************************************)
EXTENDS AlertIntake, Correlator

CONSTANT MayStop   \* may the process be told to stop?

ASSUME StopAssumption == MayStop \in BOOLEAN

VARIABLE
  main          \* the main goroutine: "serving", "signalled", "closing", "exited"

vars == <<now, intakeVars, correlatorVars, main>>

TypeOK ==
  /\ now \in 0..MaxTime
  /\ seen \in [Fingerprints -> 0..MaxTime \cup {Never}]
  /\ \A r \in DOMAIN rows : rows[r].fp \in Fingerprints \ Filtered
  /\ \A w \in Hooks :
       /\ hook[w].pc \in {"idle", "check", "mark", "save", "done"}
       /\ hook[w].kept \subseteq DOMAIN rows /\ job[w] \subseteq DOMAIN rows
  /\ saveFaults \in 0..MaxSaveFaults
  /\ \A e \in buffer : e.row \in DOMAIN rows /\ e.pos < submits /\ e.at <= now
  /\ loop \in {"wait", "flush", "drain", "stopped"}
  /\ loop \in {"flush", "drain"} <=> todo # {}
  /\ \A g \in todo \cup groups : g.primary \in g.members /\ g.flush < submits
  /\ main \in {"serving", "signalled", "closing", "exited"}

Init ==
  /\ now = 0 /\ main = "serving"
  /\ IntakeInit /\ CorrelatorInit

(* The listener takes new connections until srv.Shutdown closes it.        *)
Webhook(w) ==
  /\ \/ main \in {"serving", "signalled"} /\ Receive(w)
     \/ Check(w) \/ MarkSeen(w) \/ SaveAlert(w) \/ Respond(w)
  /\ UNCHANGED <<now, correlatorVars, main>>

CleanUp == EvictExpired /\ UNCHANGED <<now, correlatorVars, main>>

(* ProcessAlert submits the rows in the order they were saved.             *)
ProcessAlert(w) ==
  \E r \in job[w] :
    /\ \A s \in job[w] : r <= s
    /\ Submit(r, rows[r].fp, rows[r].starts)
    /\ job' = [job EXCEPT ![w] = @ \ {r}]
    /\ UNCHANGED <<now, seen, rows, hook, saveFaults, main>>

(* The cancelled context ends the loop at its next select.                 *)
FlushLoop ==
  /\ \/ FlushDue
     \/ main # "serving" /\ FlushAll
     \/ OnGroup
  /\ UNCHANGED <<now, intakeVars, main>>

Tick ==
  /\ now < MaxTime
  /\ now' = now + 1
  /\ UNCHANGED <<intakeVars, correlatorVars, main>>

Signal ==
  /\ MayStop /\ main = "serving"
  /\ main' = "signalled"
  /\ UNCHANGED <<now, intakeVars, correlatorVars>>

CloseListener ==
  /\ main = "signalled"
  /\ main' = "closing"
  /\ UNCHANGED <<now, intakeVars, correlatorVars>>

(* srv.Shutdown waits for the handlers, but only up to its timeout, and    *)
(* the deferred Stop waits for the flush goroutine.                        *)
Exit ==
  /\ main = "closing" /\ loop = "stopped"
  /\ main' = "exited"
  /\ UNCHANGED <<now, intakeVars, correlatorVars>>

Next ==
  /\ main # "exited"
  /\ \/ \E w \in Hooks : Webhook(w) \/ ProcessAlert(w)
     \/ CleanUp \/ FlushLoop \/ Tick
     \/ Signal \/ CloseListener \/ Exit

Spec == Init /\ [][Next]_vars

(* Started goroutines run, handlers and the analysis of a group come to an *)
(* end, time passes, and main goes through its shutdown.                   *)
Fairness ==
  /\ \A w \in Hooks :
       /\ WF_vars(main # "exited" /\ hook[w].pc # "idle" /\ Webhook(w))
       /\ WF_vars(main # "exited" /\ ProcessAlert(w))
  /\ WF_vars(main # "exited" /\ FlushLoop)
  /\ WF_vars(main # "exited" /\ Tick)
  /\ WF_vars(CloseListener)
  /\ WF_vars(Exit)

FairSpec == Spec /\ Fairness

-----------------------------------------------------------------------------
(* No row is lost or handled twice on its way, whatever interleaves: while *)
(* the process lives every saved alert is in exactly one place, and the    *)
(* places are the handler that saved it, its goroutine, the buffer, the    *)
(* flush, and one group.                                                   *)
Rows(entries) == {e.row : e \in entries}

Places(r) ==
  Cardinality({w \in Hooks : r \in hook[w].kept}) +
  Cardinality({w \in Hooks : r \in job[w]}) +
  Cardinality({e \in buffer : e.row = r}) +
  Cardinality({g \in todo \cup groups : r \in Rows(g.members)})

EachRowInOnePlace == \A r \in DOMAIN rows : Places(r) = 1

(* The incoming alert is let through a second time only a whole window     *)
(* after it was last let through, clean-up or not, unless two webhooks     *)
(* overlap: the check of the one came before the mark of the other.        *)
DedupHolds ==
  \A r, s \in DOMAIN rows :
    rows[r].fp = rows[s].fp /\ rows[s].checked > rows[r].marked =>
      rows[s].checked - rows[r].marked >= DedupWindow

(* Two groups of one flush whose alerts share a label are pieces of one    *)
(* oversize cluster: at most one of them is not full.                      *)
SameFlush(g, h) ==
  g # h /\ g.flush = h.flush /\ \E d \in g.members, e \in h.members : Linked(d, e)

SplitOnlyByCap ==
  \A g, h \in todo \cup groups : SameFlush(g, h) =>
    MaxGroupSize \in {Cardinality(g.members), Cardinality(h.members)}

(* What the approver is shown as the root cause of a group fired first in  *)
(* it, and of the pieces of an oversize cluster one is entirely before the *)
(* other, so no later piece hides an earlier alert.                        *)
RootCauseFirst ==
  /\ \A g \in todo \cup groups : \A e \in g.members : g.primary.starts <= e.starts
  /\ \A g, h \in todo \cup groups : SameFlush(g, h) =>
       \/ \A d \in g.members, e \in h.members : Before(d, e)
       \/ \A d \in g.members, e \in h.members : Before(e, d)

(* Every saved row reaches the pipeline in a group unless the process is    *)
(* told to stop, those included that were submitted while a flush took     *)
(* others or while a group was analysed (takeDue, flushLoop).              *)
RowIds == 1..(Cardinality(Hooks) * MaxBatch)

SavedIsGrouped ==
  \A r \in RowIds :
    r \in DOMAIN rows ~>
      main # "serving" \/ \E g \in groups : r \in Rows(g.members)

(* Once told to stop the process exits: Stop's wait for the flush          *)
(* goroutine ends.                                                         *)
StopEnds == main = "signalled" ~> main = "exited"

-----------------------------------------------------------------------------
(* What the repository says and the code does not keep.                    *)

(* internal/correlation/correlator.go: the correlator "groups alerts that  *)
(* arrived within the same window into clusters".  So two alerts that      *)
(* share a label and were submitted less than a window apart are not       *)
(* in two groups, unless the cap splits them.                              *)
SameWindowSameGroup ==
  \A g, h \in groups : \A d \in g.members, e \in h.members :
    g # h /\ Linked(d, e) /\ e.at - d.at \in 0..(Window - 1) =>
      MaxGroupSize \in {Cardinality(g.members), Cardinality(h.members)}

(* internal/correlation/correlator.go: on exit any remaining buffered      *)
(* alerts are flushed in a final pass "so no data is lost on shutdown".    *)
NothingLeftInBuffer == main = "exited" => buffer = {}
=============================================================================
