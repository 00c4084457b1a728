---------------------------- MODULE AlertIntake ----------------------------
(***************************************************************************)
(* The webhook handler and the deduplicator of internal/alert.  Every      *)
(* webhook is a goroutine that goes through the alerts of its payload;     *)
(* IsDuplicate and MarkSeen are two critical sections, and the alert is    *)
(* saved after it was marked.  The rows that were saved are handed to a    *)
(* new goroutine, which passes them on one by one.                         *)
(*                                                                         *)
(* A definition X_Variant before a definition X is X with a bug in it.     *)
(***************************************************************************)
EXTENDS Alerts, FiniteSets, Sequences

CONSTANTS
  Hooks,         \* webhooks that arrive
  Filtered,      \* fingerprints whose severity is not in the filter
  DedupWindow,
  MaxBatch,      \* bound on the alerts of a payload
  MaxSaveFaults  \* bound on SaveAlert calls that fail

ASSUME IntakeAssumption ==
  /\ DedupWindow \in Nat \ {0} /\ MaxBatch \in Nat \ {0} /\ MaxSaveFaults \in Nat
  /\ Filtered \subseteq Fingerprints

Never == -1

VARIABLES
  seen,     \* Deduplicator.seen: when each fingerprint was last marked
  rows,     \* the alerts table, in insertion order
  hook,     \* the webhook handlers
  job,      \* rows each webhook's goroutine still has to pass on
  saveFaults

intakeVars == <<seen, rows, hook, job, saveFaults>>

NoAlert == [fp |-> "none", starts |-> 0]
IdleHook == [pc |-> "idle", rest |-> {}, alert |-> NoAlert, checked |-> 0, marked |-> 0,
             kept |-> {}]

IntakeInit ==
  /\ seen = [f \in Fingerprints |-> Never]
  /\ rows = <<>>
  /\ hook = [w \in Hooks |-> IdleHook]
  /\ job = [w \in Hooks |-> {}]
  /\ saveFaults = 0

(* A payload holds alerts with different fingerprints that fired already.  *)
Payloads ==
  UNION {[fps -> 0..now] : fps \in {s \in SUBSET Fingerprints : Cardinality(s) \in 1..MaxBatch}}

(* Alerts that resolved have the same effect as a payload without them.    *)
Receive(w) ==
  /\ hook[w].pc = "idle"
  /\ \E p \in Payloads :
       hook' = [hook EXCEPT ![w].pc = "check",
                  ![w].rest = {[fp |-> f, starts |-> p[f]] : f \in DOMAIN p}]
  /\ UNCHANGED <<seen, rows, job, saveFaults>>

IsDuplicate(a) == seen[a.fp] # Never /\ a.starts - seen[a.fp] < DedupWindow

Check(w) ==
  /\ hook[w].pc = "check"
  /\ \E a \in hook[w].rest :
       hook' = IF a.fp \in Filtered \/ IsDuplicate(a)
               THEN [hook EXCEPT ![w].rest = @ \ {a}]
               ELSE [hook EXCEPT ![w].rest = @ \ {a}, ![w].pc = "mark",
                                 ![w].alert = a, ![w].checked = now]
  /\ UNCHANGED <<seen, rows, job, saveFaults>>

MarkSeen(w) ==
  /\ hook[w].pc = "mark"
  /\ seen' = [seen EXCEPT ![hook[w].alert.fp] = now]
  /\ hook' = [hook EXCEPT ![w].pc = "save", ![w].marked = now]
  /\ UNCHANGED <<rows, job, saveFaults>>

(* A row that cannot be saved is dropped and its fingerprint stays marked. *)
SaveAlert(w) ==
  LET a == hook[w].alert IN
  /\ hook[w].pc = "save"
  /\ \/ /\ rows' = Append(rows, [fp |-> a.fp, starts |-> a.starts,
                                 checked |-> hook[w].checked, marked |-> hook[w].marked])
        /\ hook' = [hook EXCEPT ![w].pc = "check", ![w].kept = @ \cup {Len(rows) + 1}]
        /\ UNCHANGED saveFaults
     \/ /\ saveFaults < MaxSaveFaults
        /\ saveFaults' = saveFaults + 1
        /\ hook' = [hook EXCEPT ![w].pc = "check"]
        /\ UNCHANGED rows
  /\ UNCHANGED <<seen, job>>

(* The payload is done: the goroutine is started and 200 is answered.      *)
Respond(w) ==
  /\ hook[w].pc = "check" /\ hook[w].rest = {}
  /\ job' = [job EXCEPT ![w] = hook[w].kept]
  /\ hook' = [hook EXCEPT ![w] = [IdleHook EXCEPT !.pc = "done"]]
  /\ UNCHANGED <<seen, rows, saveFaults>>

Expired_AtOnce(f) == seen[f] # Never /\ seen[f] < now
Expired(f) == seen[f] # Never /\ seen[f] < now - DedupWindow

EvictExpired ==
  /\ \E f \in Fingerprints : Expired(f)
  /\ seen' = [f \in Fingerprints |-> IF Expired(f) THEN Never ELSE seen[f]]
  /\ UNCHANGED <<rows, hook, job, saveFaults>>

=============================================================================
