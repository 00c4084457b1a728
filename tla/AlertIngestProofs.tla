------------------------- MODULE AlertIngestProofs -------------------------
(***************************************************************************)
(* Proofs about AlertIngest, for any number of webhooks, fingerprints and  *)
(* faults, any labels and any length of the windows: repeats are held back *)
(* for the whole window, no row is lost or doubled on its way to the       *)
(* pipeline, and what one flush hands over is cut only by the cap and in   *)
(* the order in which the alerts fired.                                    *)
(***************************************************************************)
EXTENDS AlertIngest, ClusteringProofs

-----------------------------------------------------------------------------
(* Types of the intake's state.                                            *)
Alert == [fp : Fingerprints, starts : Nat]

Row == [fp : Fingerprints \ Filtered, starts : Nat, checked : Nat, marked : Nat]

HookRec == [pc : {"idle", "check", "mark", "save", "done"}, rest : SUBSET Alert,
            alert : Alert \cup {NoAlert}, checked : Nat, marked : Nat, kept : SUBSET Nat]

IntakeType ==
  /\ now \in 0 .. MaxTime
  /\ seen \in [Fingerprints -> 0 .. MaxTime \cup {Never}]
  /\ rows \in Seq(Row)
  /\ hook \in [Hooks -> HookRec]
  /\ job \in [Hooks -> SUBSET Nat]
  /\ saveFaults \in 0 .. MaxSaveFaults

(* What a handler holds at each of its stations, and when it leaves rows   *)
(* to its goroutine.                                                       *)
HookInv ==
  \A w \in Hooks :
    /\ hook[w].pc \in {"mark", "save"} =>
         hook[w].alert \in Alert /\ hook[w].alert.fp \notin Filtered
    /\ \A a \in hook[w].rest : a.starts <= now
    /\ hook[w].kept \subseteq DOMAIN rows /\ job[w] \subseteq DOMAIN rows
    /\ hook[w].pc # "done" => job[w] = {}
    /\ hook[w].pc \in {"idle", "done"} => hook[w].kept = {}

(* When a fingerprint was let through and when it was marked: by an alert  *)
(* that is saved already or by one still on its way into the table.        *)
CheckedAt(f, t) ==
  \/ \E r \in DOMAIN rows : rows[r].fp = f /\ rows[r].checked = t
  \/ \E w \in Hooks : /\ hook[w].pc \in {"mark", "save"}
                      /\ hook[w].alert.fp = f /\ hook[w].checked = t

MarkedAt(f, m) ==
  \/ \E r \in DOMAIN rows : rows[r].fp = f /\ rows[r].marked = m
  \/ \E w \in Hooks : /\ hook[w].pc = "save"
                      /\ hook[w].alert.fp = f /\ hook[w].marked = m

(* The deduplicator remembers a mark no older than any that was made, and  *)
(* forgets a fingerprint only when all its marks are a window old.         *)
Remembered(f, m) ==
  /\ m <= now
  /\ \/ seen[f] # Never /\ m <= seen[f]
     \/ seen[f] = Never /\ m < now - DedupWindow

DedupInv ==
  \A f \in Fingerprints :
    /\ \A t \in Nat : CheckedAt(f, t) => t <= now
    /\ \A m \in Nat : MarkedAt(f, m) => Remembered(f, m)
    /\ \A m, t \in Nat : MarkedAt(f, m) /\ CheckedAt(f, t) /\ t > m => t - m >= DedupWindow

IntakeInv == IntakeType /\ HookInv /\ DedupInv

-----------------------------------------------------------------------------
LEMMA IntakeInitially == Init => IntakeInv
<1> SUFFICES ASSUME Init PROVE IntakeInv
  OBVIOUS
<1> USE DEF Init, IntakeInit
<1>1. IdleHook \in HookRec /\ IdleHook.pc = "idle" /\ IdleHook.kept = {} /\ IdleHook.rest = {}
  BY DEF IdleHook, HookRec
<1>2. IntakeType
  <2>1. hook \in [Hooks -> HookRec]
    BY <1>1
  <2>2. rows \in Seq(Row)
    OBVIOUS
  <2> QED
    BY <2>1, <2>2, ClockAssumption, IntakeAssumption DEF IntakeType
<1>3. HookInv
  BY <1>1 DEF HookInv
<1>4. DOMAIN rows = {}
  OBVIOUS
<1>5. DedupInv
  BY <1>1, <1>4 DEF DedupInv, CheckedAt, MarkedAt
<1> QED
  BY <1>2, <1>3, <1>5 DEF IntakeInv

(* A handler changes its own record only.                                  *)
LEMMA OthersKept ==
  ASSUME IntakeType, NEW w \in Hooks, NEW r \in HookRec, hook' = [hook EXCEPT ![w] = r]
  PROVE  /\ hook' \in [Hooks -> HookRec]
         /\ hook'[w] = r
         /\ \A v \in Hooks \ {w} : hook'[v] = hook[v]
  BY DEF IntakeType

LEMMA ReceiveKeeps ==
  ASSUME IntakeInv, NEW w \in Hooks, Receive(w), UNCHANGED now
  PROVE  IntakeInv'
<1> USE DEF IntakeInv
<1>1. PICK p \in Payloads : hook' = [hook EXCEPT ![w].pc = "check",
                              ![w].rest = {[fp |-> f, starts |-> p[f]] : f \in DOMAIN p}]
  BY DEF Receive
<1> DEFINE rest == {[fp |-> f, starts |-> p[f]] : f \in DOMAIN p}
           r == [hook[w] EXCEPT !.pc = "check", !.rest = rest]
<1>2. \A a \in rest : a \in Alert /\ a.starts <= now
  <2>1. PICK fps \in SUBSET Fingerprints : p \in [fps -> 0 .. now]
    BY DEF Payloads
  <2>2. now \in Nat
    BY ClockAssumption DEF IntakeType
  <2> QED
    BY <2>1, <2>2 DEF Alert
<1>3. hook[w] \in HookRec /\ hook[w].pc = "idle"
  BY DEF IntakeType, Receive
<1>4. /\ r \in HookRec /\ r.pc = "check" /\ r.rest = rest /\ r.kept = hook[w].kept
      /\ hook' = [hook EXCEPT ![w] = r]
  <2> HIDE DEF rest
  <2>1. rest \subseteq Alert
    BY <1>2
  <2> QED
    BY <1>1, <1>3, <2>1 DEF HookRec, rest
<1> HIDE DEF rest, r
<1>5. hook' \in [Hooks -> HookRec] /\ hook'[w] = r /\ \A v \in Hooks \ {w} : hook'[v] = hook[v]
  BY <1>4, OthersKept
<1>6. UNCHANGED <<now, seen, rows, job, saveFaults>>
  BY DEF Receive
<1>7. IntakeType'
  BY <1>5, <1>6 DEF IntakeType
<1>8. HookInv'
  BY <1>2, <1>3, <1>4, <1>5, <1>6 DEF HookInv
<1>9. \A f, t : CheckedAt(f, t)' => CheckedAt(f, t)
  BY <1>4, <1>5, <1>6 DEF CheckedAt
<1>10. \A f, m : MarkedAt(f, m)' => MarkedAt(f, m)
  BY <1>4, <1>5, <1>6 DEF MarkedAt
<1>11. DedupInv'
  BY <1>6, <1>9, <1>10 DEF DedupInv, Remembered
<1> QED
  BY <1>7, <1>8, <1>11

(* An alert passes the check a window after every mark of its fingerprint: *)
(* the alerts of a payload fired in the past.                              *)
LEMMA CheckKeeps ==
  ASSUME IntakeInv, NEW w \in Hooks, Check(w), UNCHANGED now
  PROVE  IntakeInv'
<1> USE DEF IntakeInv
<1>1. PICK a \in hook[w].rest :
        hook' = IF a.fp \in Filtered \/ IsDuplicate(a)
                THEN [hook EXCEPT ![w].rest = @ \ {a}]
                ELSE [hook EXCEPT ![w].rest = @ \ {a}, ![w].pc = "mark",
                                  ![w].alert = a, ![w].checked = now]
  BY DEF Check
<1>2. UNCHANGED <<now, seen, rows, job, saveFaults>>
  BY DEF Check
<1>3. hook[w] \in HookRec /\ hook[w].pc = "check" /\ now \in Nat
  BY ClockAssumption DEF IntakeType, Check
<1>4. a \in Alert /\ a.starts <= now
  BY <1>3 DEF HookRec, HookInv
<1>5. CASE a.fp \in Filtered \/ IsDuplicate(a)
  <2> DEFINE r == [hook[w] EXCEPT !.rest = @ \ {a}]
  <2>1. /\ r \in HookRec /\ r.pc = "check" /\ r.rest \subseteq hook[w].rest
        /\ r.kept = hook[w].kept /\ hook' = [hook EXCEPT ![w] = r]
    BY <1>1, <1>3, <1>5 DEF HookRec
  <2> HIDE DEF r
  <2>2. hook' \in [Hooks -> HookRec] /\ hook'[w] = r /\ \A v \in Hooks \ {w} : hook'[v] = hook[v]
    BY <2>1, OthersKept
  <2>3. IntakeType'
    BY <1>2, <2>2 DEF IntakeType
  <2>4. HookInv'
    BY <1>2, <1>3, <2>1, <2>2 DEF HookInv
  <2>5. \A f, t : CheckedAt(f, t)' => CheckedAt(f, t)
    BY <1>2, <2>1, <2>2 DEF CheckedAt
  <2>6. \A f, m : MarkedAt(f, m)' => MarkedAt(f, m)
    BY <1>2, <2>1, <2>2 DEF MarkedAt
  <2>7. DedupInv'
    BY <1>2, <2>5, <2>6 DEF DedupInv, Remembered
  <2> QED
    BY <2>3, <2>4, <2>7
<1>6. CASE ~ (a.fp \in Filtered \/ IsDuplicate(a))
  <2> DEFINE r == [hook[w] EXCEPT !.rest = @ \ {a}, !.pc = "mark", !.alert = a, !.checked = now]
  <2>1. /\ r \in HookRec /\ r.pc = "mark" /\ r.rest \subseteq hook[w].rest
        /\ r.kept = hook[w].kept /\ r.alert = a /\ r.checked = now
        /\ hook' = [hook EXCEPT ![w] = r]
    BY <1>1, <1>3, <1>4, <1>6 DEF HookRec
  <2> HIDE DEF r
  <2>2. hook' \in [Hooks -> HookRec] /\ hook'[w] = r /\ \A v \in Hooks \ {w} : hook'[v] = hook[v]
    BY <2>1, OthersKept
  <2>3. IntakeType'
    BY <1>2, <2>2 DEF IntakeType
  <2>4. HookInv'
    BY <1>2, <1>3, <1>4, <1>6, <2>1, <2>2 DEF HookInv
  <2>5. \A f, t : CheckedAt(f, t)' => CheckedAt(f, t) \/ (f = a.fp /\ t = now)
    BY <1>2, <2>1, <2>2 DEF CheckedAt
  <2>6. \A f, m : MarkedAt(f, m)' => MarkedAt(f, m)
    BY <1>2, <2>1, <2>2 DEF MarkedAt
  <2>7. \A m \in Nat : MarkedAt(a.fp, m) => now - m >= DedupWindow
    <3> TAKE m \in Nat
    <3> HAVE MarkedAt(a.fp, m)
    <3>1. Remembered(a.fp, m)
      BY <1>4 DEF DedupInv, Alert
    <3>2. seen[a.fp] = Never \/ ~ (a.starts - seen[a.fp] < DedupWindow)
      BY <1>6 DEF IsDuplicate
    <3>3. seen[a.fp] \in Int /\ a.starts \in Nat /\ DedupWindow \in Nat
      BY <1>4, ClockAssumption, IntakeAssumption DEF IntakeType, Alert, Never
    <3> QED
      BY <1>3, <1>4, <3>1, <3>2, <3>3 DEF Remembered
  <2>8. DedupInv'
    <3> SUFFICES ASSUME NEW f \in Fingerprints
                 PROVE  /\ \A t \in Nat : CheckedAt(f, t)' => t <= now'
                        /\ \A m \in Nat : MarkedAt(f, m)' => Remembered(f, m)'
                        /\ \A m, t \in Nat : MarkedAt(f, m)' /\ CheckedAt(f, t)' /\ t > m =>
                             t - m >= DedupWindow
      BY DEF DedupInv
    <3>1. \A t \in Nat : CheckedAt(f, t)' => t <= now'
      BY <1>2, <1>3, <2>5 DEF DedupInv
    <3>2. \A m \in Nat : MarkedAt(f, m)' => Remembered(f, m)'
      BY <1>2, <2>6 DEF DedupInv, Remembered
    <3>3. ASSUME NEW m \in Nat, NEW t \in Nat, MarkedAt(f, m)', CheckedAt(f, t)', t > m
          PROVE  t - m >= DedupWindow
      BY <2>5, <2>6, <2>7, <3>3 DEF DedupInv
    <3> QED
      BY <3>1, <3>2, <3>3
  <2> QED
    BY <2>3, <2>4, <2>8
<1> QED
  BY <1>5, <1>6

LEMMA MarkSeenKeeps ==
  ASSUME IntakeInv, NEW w \in Hooks, MarkSeen(w), UNCHANGED now
  PROVE  IntakeInv'
<1> USE DEF IntakeInv
<1> DEFINE r == [hook[w] EXCEPT !.pc = "save", !.marked = now]
           a == hook[w].alert
<1>1. UNCHANGED <<now, rows, job, saveFaults>> /\ seen' = [seen EXCEPT ![a.fp] = now]
  BY DEF MarkSeen
<1>2. hook[w] \in HookRec /\ hook[w].pc = "mark" /\ now \in 0 .. MaxTime /\ now \in Nat
  BY ClockAssumption DEF IntakeType, MarkSeen
<1>3. a \in Alert /\ a.fp \notin Filtered
  BY <1>2 DEF HookInv
<1>4. /\ r \in HookRec /\ r.pc = "save" /\ r.rest = hook[w].rest /\ r.kept = hook[w].kept
      /\ r.alert = a /\ r.checked = hook[w].checked /\ r.marked = now
      /\ hook' = [hook EXCEPT ![w] = r]
  BY <1>2 DEF HookRec, MarkSeen
<1> HIDE DEF r, a
<1>5. hook' \in [Hooks -> HookRec] /\ hook'[w] = r /\ \A v \in Hooks \ {w} : hook'[v] = hook[v]
  BY <1>4, OthersKept
<1>6. IntakeType'
  <2>1. seen' \in [Fingerprints -> 0 .. MaxTime \cup {Never}]
    BY <1>1, <1>2, <1>3 DEF IntakeType, Alert
  <2> QED
    BY <1>1, <1>5, <2>1 DEF IntakeType
<1>7. HookInv'
  BY <1>1, <1>2, <1>3, <1>4, <1>5 DEF HookInv
<1>8. \A f, t : CheckedAt(f, t)' => CheckedAt(f, t)
  BY <1>1, <1>2, <1>4, <1>5 DEF CheckedAt, a
<1>9. \A f, m : MarkedAt(f, m)' => MarkedAt(f, m) \/ (f = a.fp /\ m = now)
  BY <1>1, <1>4, <1>5 DEF MarkedAt
<1>10. \A f \in Fingerprints : IF f = a.fp THEN seen'[f] = now ELSE seen'[f] = seen[f]
  BY <1>1, <1>3 DEF IntakeType, Alert
<1>11. now # Never
  BY <1>2 DEF Never
<1>12. DedupInv'
  <2> SUFFICES ASSUME NEW f \in Fingerprints
               PROVE  /\ \A t \in Nat : CheckedAt(f, t)' => t <= now'
                      /\ \A m \in Nat : MarkedAt(f, m)' => Remembered(f, m)'
                      /\ \A m, t \in Nat : MarkedAt(f, m)' /\ CheckedAt(f, t)' /\ t > m =>
                           t - m >= DedupWindow
    BY DEF DedupInv
  <2>1. \A t \in Nat : CheckedAt(f, t)' => t <= now'
    BY <1>1, <1>8 DEF DedupInv
  <2>2. \A m \in Nat : MarkedAt(f, m)' => Remembered(f, m)'
    BY <1>1, <1>2, <1>9, <1>10, <1>11 DEF DedupInv, Remembered
  <2>3. ASSUME NEW m \in Nat, NEW t \in Nat, MarkedAt(f, m)', CheckedAt(f, t)', t > m
        PROVE  t - m >= DedupWindow
    <3>1. t <= now
      BY <1>1, <2>1, <2>3
    <3>2. m # now
      BY <1>2, <2>3, <3>1
    <3> QED
      BY <1>8, <1>9, <2>3, <3>2 DEF DedupInv
  <2> QED
    BY <2>1, <2>2, <2>3
<1> QED
  BY <1>6, <1>7, <1>12

(* Saving moves the times of the alert from its handler into the table, or *)
(* forgets them.                                                           *)
LEMMA SaveAlertKeeps ==
  ASSUME IntakeInv, NEW w \in Hooks, SaveAlert(w), UNCHANGED now
  PROVE  IntakeInv'
<1> USE DEF IntakeInv
<1> DEFINE a == hook[w].alert
           row == [fp |-> a.fp, starts |-> a.starts,
                   checked |-> hook[w].checked, marked |-> hook[w].marked]
           n == Len(rows) + 1
<1>1. hook[w] \in HookRec /\ hook[w].pc = "save" /\ UNCHANGED <<now, seen, job>>
  BY DEF IntakeType, SaveAlert
<1>2. a \in Alert /\ a.fp \notin Filtered
  BY <1>1 DEF HookInv
<1>3. row \in Row /\ row.fp = a.fp /\ row.checked = hook[w].checked /\ row.marked = hook[w].marked
  BY <1>1, <1>2 DEF Row, Alert, HookRec
<1>4. rows \in Seq(Row) /\ n \in Nat /\ DOMAIN rows = 1 .. Len(rows) /\ n \notin DOMAIN rows
  <2>1. rows \in Seq(Row)
    BY DEF IntakeType
  <2> QED
    BY <2>1
<1>5. CASE /\ rows' = Append(rows, row)
           /\ hook' = [hook EXCEPT ![w].pc = "check", ![w].kept = @ \cup {n}]
           /\ UNCHANGED saveFaults
  <2> DEFINE r == [hook[w] EXCEPT !.pc = "check", !.kept = @ \cup {n}]
  <2>1. /\ r \in HookRec /\ r.pc = "check" /\ r.rest = hook[w].rest
        /\ r.kept = hook[w].kept \cup {n} /\ hook' = [hook EXCEPT ![w] = r]
    <3> HIDE DEF n
    <3> QED
      BY <1>1, <1>4, <1>5 DEF HookRec
  <2> HIDE DEF r, row, a
  <2>2. hook' \in [Hooks -> HookRec] /\ hook'[w] = r /\ \A v \in Hooks \ {w} : hook'[v] = hook[v]
    BY <2>1, OthersKept
  <2>3. /\ rows' \in Seq(Row) /\ DOMAIN rows' = DOMAIN rows \cup {n}
        /\ rows'[n] = row /\ \A i \in DOMAIN rows : rows'[i] = rows[i]
    BY <1>3, <1>4, <1>5
  <2> HIDE DEF n
  <2>4. IntakeType'
    BY <1>1, <1>5, <2>2, <2>3 DEF IntakeType
  <2>5. HookInv'
    BY <1>1, <2>1, <2>2, <2>3 DEF HookInv
  <2>6. \A f, t : CheckedAt(f, t)' => CheckedAt(f, t)
    BY <1>1, <1>3, <2>1, <2>2, <2>3 DEF CheckedAt, a
  <2>7. \A f, m : MarkedAt(f, m)' => MarkedAt(f, m)
    BY <1>1, <1>3, <2>1, <2>2, <2>3 DEF MarkedAt, a
  <2>8. DedupInv'
    BY <1>1, <2>6, <2>7 DEF DedupInv, Remembered
  <2> QED
    BY <2>4, <2>5, <2>8
<1>6. CASE /\ saveFaults < MaxSaveFaults
           /\ saveFaults' = saveFaults + 1
           /\ hook' = [hook EXCEPT ![w].pc = "check"]
           /\ UNCHANGED rows
  <2> DEFINE r == [hook[w] EXCEPT !.pc = "check"]
  <2>1. /\ r \in HookRec /\ r.pc = "check" /\ r.rest = hook[w].rest
        /\ r.kept = hook[w].kept /\ hook' = [hook EXCEPT ![w] = r]
    BY <1>1, <1>6 DEF HookRec
  <2> HIDE DEF r
  <2>2. hook' \in [Hooks -> HookRec] /\ hook'[w] = r /\ \A v \in Hooks \ {w} : hook'[v] = hook[v]
    BY <2>1, OthersKept
  <2>3. IntakeType'
    BY <1>1, <1>6, <2>2, IntakeAssumption DEF IntakeType
  <2>4. HookInv'
    BY <1>1, <1>6, <2>1, <2>2 DEF HookInv
  <2>5. \A f, t : CheckedAt(f, t)' => CheckedAt(f, t)
    BY <1>6, <2>1, <2>2 DEF CheckedAt
  <2>6. \A f, m : MarkedAt(f, m)' => MarkedAt(f, m)
    BY <1>6, <2>1, <2>2 DEF MarkedAt
  <2>7. DedupInv'
    BY <1>1, <2>5, <2>6 DEF DedupInv, Remembered
  <2> QED
    BY <2>3, <2>4, <2>7
<1> QED
  BY <1>5, <1>6 DEF SaveAlert

LEMMA RespondKeeps ==
  ASSUME IntakeInv, NEW w \in Hooks, Respond(w), UNCHANGED now
  PROVE  IntakeInv'
<1> USE DEF IntakeInv
<1> DEFINE r == [IdleHook EXCEPT !.pc = "done"]
<1>1. hook[w] \in HookRec /\ UNCHANGED <<now, seen, rows, saveFaults>>
  BY DEF IntakeType, Respond
<1>2. /\ r \in HookRec /\ r.pc = "done" /\ r.rest = {} /\ r.kept = {}
      /\ hook' = [hook EXCEPT ![w] = r]
  BY DEF IdleHook, HookRec, Respond
<1> HIDE DEF r
<1>3. hook' \in [Hooks -> HookRec] /\ hook'[w] = r /\ \A v \in Hooks \ {w} : hook'[v] = hook[v]
  BY <1>2, OthersKept
<1>4. /\ job' \in [Hooks -> SUBSET Nat] /\ job'[w] = hook[w].kept
      /\ \A v \in Hooks \ {w} : job'[v] = job[v]
  BY <1>1 DEF IntakeType, HookRec, Respond
<1>5. IntakeType'
  BY <1>1, <1>3, <1>4 DEF IntakeType
<1>6. HookInv'
  BY <1>1, <1>2, <1>3, <1>4 DEF HookInv
<1>7. \A f, t : CheckedAt(f, t)' => CheckedAt(f, t)
  BY <1>1, <1>2, <1>3 DEF CheckedAt
<1>8. \A f, m : MarkedAt(f, m)' => MarkedAt(f, m)
  BY <1>1, <1>2, <1>3 DEF MarkedAt
<1>9. DedupInv'
  BY <1>1, <1>7, <1>8 DEF DedupInv, Remembered
<1> QED
  BY <1>5, <1>6, <1>9

(* The clean-up forgets a fingerprint a window after its last mark, and so *)
(* a window after all of them.                                             *)
LEMMA EvictKeeps ==
  ASSUME IntakeInv, EvictExpired, UNCHANGED now
  PROVE  IntakeInv'
<1> USE DEF IntakeInv
<1>1. UNCHANGED <<now, rows, hook, job, saveFaults>>
  BY DEF EvictExpired
<1>2. \A f \in Fingerprints : seen'[f] = IF Expired(f) THEN Never ELSE seen[f]
  BY DEF EvictExpired
<1>3. IntakeType'
  BY <1>1 DEF IntakeType, EvictExpired
<1>4. HookInv'
  BY <1>1 DEF HookInv
<1>5. \A f, t : (CheckedAt(f, t)' <=> CheckedAt(f, t)) /\ (MarkedAt(f, t)' <=> MarkedAt(f, t))
  BY <1>1 DEF CheckedAt, MarkedAt
<1>6. ASSUME NEW f \in Fingerprints, NEW m \in Nat, Remembered(f, m) PROVE Remembered(f, m)'
  <2>1. seen[f] \in Int /\ now \in Nat /\ DedupWindow \in Nat
    BY ClockAssumption, IntakeAssumption DEF IntakeType, Never
  <2> QED
    BY <1>1, <1>2, <1>6, <2>1 DEF Remembered, Expired
<1>7. DedupInv'
  BY <1>1, <1>5, <1>6 DEF DedupInv
<1> QED
  BY <1>3, <1>4, <1>7

LEMMA TickKeeps ==
  ASSUME IntakeInv, Tick
  PROVE  IntakeInv'
<1> USE DEF IntakeInv
<1>1. UNCHANGED <<seen, rows, hook, job, saveFaults>> /\ now' = now + 1 /\ now \in Nat
  BY ClockAssumption DEF Tick, intakeVars, IntakeType
<1>2. IntakeType'
  BY <1>1, ClockAssumption DEF IntakeType, Tick
<1>3. HookInv'
  <2>1. \A w \in Hooks : \A a \in hook[w].rest : a \in Alert /\ a.starts \in Nat
    BY DEF IntakeType, HookRec, Alert
  <2>2. \A w \in Hooks : \A a \in hook[w].rest : a.starts <= now + 1
    BY <1>1, <2>1 DEF HookInv
  <2> QED
    BY <1>1, <2>2 DEF HookInv
<1>4. \A f, t : (CheckedAt(f, t)' <=> CheckedAt(f, t)) /\ (MarkedAt(f, t)' <=> MarkedAt(f, t))
  BY <1>1 DEF CheckedAt, MarkedAt
<1>5. ASSUME NEW f \in Fingerprints, NEW m \in Nat, Remembered(f, m) PROVE Remembered(f, m)'
  BY <1>1, <1>5, IntakeAssumption DEF Remembered
<1>6. \A t \in Nat : t <= now => t <= now'
  BY <1>1
<1>7. DedupInv'
  BY <1>4, <1>5, <1>6 DEF DedupInv
<1> QED
  BY <1>2, <1>3, <1>7

LEMMA ProcessKeepsIntake ==
  ASSUME IntakeInv, NEW w \in Hooks, ProcessAlert(w)
  PROVE  IntakeInv'
<1> USE DEF IntakeInv
<1>1. UNCHANGED <<now, seen, rows, hook, saveFaults>>
  BY DEF ProcessAlert
<1>2. PICK r \in job[w] : job' = [job EXCEPT ![w] = @ \ {r}]
  BY DEF ProcessAlert
<1>3. job' \in [Hooks -> SUBSET Nat] /\ \A v \in Hooks : job'[v] \subseteq job[v]
  BY <1>2 DEF IntakeType
<1>4. IntakeType'
  BY <1>1, <1>3 DEF IntakeType
<1>5. HookInv'
  BY <1>1, <1>3 DEF HookInv
<1>6. DedupInv'
  BY <1>1 DEF DedupInv, CheckedAt, MarkedAt, Remembered
<1> QED
  BY <1>4, <1>5, <1>6

LEMMA IntakeStep ==
  ASSUME IntakeInv, [Next]_vars
  PROVE  IntakeInv'
<1>1. ASSUME UNCHANGED <<now, intakeVars>> PROVE IntakeInv'
  <2> USE <1>1 DEF intakeVars
  <2>1. IntakeType'
    BY DEF IntakeInv, IntakeType
  <2>2. HookInv'
    BY DEF IntakeInv, HookInv
  <2>3. DedupInv'
    <3>1. \A f, t : /\ CheckedAt(f, t)' <=> CheckedAt(f, t)
                    /\ MarkedAt(f, t)' <=> MarkedAt(f, t)
                    /\ Remembered(f, t)' <=> Remembered(f, t)
      BY DEF CheckedAt, MarkedAt, Remembered
    <3> QED
      BY <3>1 DEF IntakeInv, DedupInv
  <2> QED
    BY <2>1, <2>2, <2>3 DEF IntakeInv
<1>2. ASSUME NEW w \in Hooks, Webhook(w) PROVE IntakeInv'
  <2>1. UNCHANGED now
    BY <1>2 DEF Webhook
  <2>2. Receive(w) \/ Check(w) \/ MarkSeen(w) \/ SaveAlert(w) \/ Respond(w)
    BY <1>2 DEF Webhook
  <2> QED
    BY <2>1, <2>2, ReceiveKeeps, CheckKeeps, MarkSeenKeeps, SaveAlertKeeps, RespondKeeps
<1>3. ASSUME NEW w \in Hooks, ProcessAlert(w) PROVE IntakeInv'
  BY <1>3, ProcessKeepsIntake
<1>4. CASE CleanUp
  BY <1>4, EvictKeeps DEF CleanUp
<1>5. CASE FlushLoop
  BY <1>1, <1>5 DEF FlushLoop
<1>6. CASE Tick
  BY <1>6, TickKeeps
<1>7. CASE Signal \/ CloseListener \/ Exit
  BY <1>1, <1>7 DEF Signal, CloseListener, Exit
<1>8. CASE UNCHANGED vars
  BY <1>1, <1>8 DEF vars
<1> QED
  BY <1>2, <1>3, <1>4, <1>5, <1>6, <1>7, <1>8 DEF Next

(* DedupHolds: a row whose check came after the mark of another row with   *)
(* the same fingerprint came a whole window after it, for every            *)
(* interleaving of the checks, marks and saves of any number of webhooks   *)
(* with the clean-up of internal/alert/dedup.go.                           *)
THEOREM RepeatsAreHeld == Spec => []DedupHolds
<1>1. IntakeInv => DedupHolds
  <2> SUFFICES ASSUME IntakeInv, NEW r \in DOMAIN rows, NEW s \in DOMAIN rows,
                      rows[r].fp = rows[s].fp, rows[s].checked > rows[r].marked
               PROVE  rows[s].checked - rows[r].marked >= DedupWindow
    BY DEF DedupHolds
  <2>1. rows[r] \in Row /\ rows[s] \in Row
    BY DEF IntakeInv, IntakeType
  <2>2. /\ rows[r].fp \in Fingerprints
        /\ rows[r].marked \in Nat /\ rows[s].checked \in Nat
    BY <2>1 DEF Row
  <2>3. MarkedAt(rows[r].fp, rows[r].marked) /\ CheckedAt(rows[r].fp, rows[s].checked)
    BY DEF MarkedAt, CheckedAt
  <2> QED
    BY <2>2, <2>3 DEF IntakeInv, DedupInv
<1>2. Spec => []IntakeInv
  BY IntakeInitially, IntakeStep, PTL DEF Spec
<1> QED
  BY <1>1, <1>2, PTL

-----------------------------------------------------------------------------
(* The safety half of SavedIsGrouped's way there.  The handler of          *)
(* internal/alert/handler.go marks a fingerprint before it saves the       *)
(* alert, and a marked fingerprint is held back for a window.  As long as  *)
(* no save fails, that never costs an alert: the last mark of every        *)
(* fingerprint is that of a row of the table, or of an alert whose handler *)
(* is about to save it, whatever overlaps and whatever is evicted.         *)
MarksAreBacked ==
  saveFaults = 0 => \A f \in Fingerprints : seen[f] # Never => MarkedAt(f, seen[f])

LEMMA BackedSaved ==
  ASSUME IntakeInv, MarksAreBacked, NEW w \in Hooks, SaveAlert(w), saveFaults' = 0
  PROVE  MarksAreBacked'
<1> DEFINE a == hook[w].alert
           row == [fp |-> a.fp, starts |-> a.starts,
                   checked |-> hook[w].checked, marked |-> hook[w].marked]
           n == Len(rows) + 1
<1>1. saveFaults \in Nat /\ rows \in Seq(Row) /\ hook \in [Hooks -> HookRec] /\ UNCHANGED seen
  BY IntakeAssumption DEF IntakeInv, IntakeType, SaveAlert
<1>2. /\ rows' = Append(rows, row)
      /\ hook' = [hook EXCEPT ![w].pc = "check", ![w].kept = @ \cup {n}]
      /\ saveFaults = 0
  <2>1. \/ /\ rows' = Append(rows, row)
           /\ hook' = [hook EXCEPT ![w].pc = "check", ![w].kept = @ \cup {n}]
           /\ UNCHANGED saveFaults
        \/ saveFaults' = saveFaults + 1
    BY DEF SaveAlert
  <2>2. saveFaults' # saveFaults + 1
    BY <1>1
  <2> QED
    BY <2>1, <2>2
<1>3. row.fp = a.fp /\ row.marked = hook[w].marked
  OBVIOUS
<1> HIDE DEF row
<1>4. n \in DOMAIN rows' /\ rows'[n] = row
  BY <1>1, <1>2
<1>5. \A i \in DOMAIN rows : i \in DOMAIN rows' /\ rows'[i] = rows[i]
  BY <1>1, <1>2
<1>6. \A v \in Hooks \ {w} : hook'[v] = hook[v]
  BY <1>1, <1>2
<1>7. ASSUME NEW f \in Fingerprints, MarkedAt(f, seen[f]) PROVE MarkedAt(f, seen[f])'
  <2>1. CASE \E i \in DOMAIN rows : rows[i].fp = f /\ rows[i].marked = seen[f]
    BY <1>1, <1>5, <2>1 DEF MarkedAt
  <2>2. ASSUME NEW v \in Hooks, hook[v].pc = "save", hook[v].alert.fp = f, hook[v].marked = seen[f]
        PROVE  MarkedAt(f, seen[f])'
    <3>1. CASE v = w
      BY <1>1, <1>3, <1>4, <2>2, <3>1 DEF MarkedAt
    <3>2. CASE v # w
      BY <1>1, <1>6, <2>2, <3>2 DEF MarkedAt
    <3> QED
      BY <3>1, <3>2
  <2> QED
    BY <1>7, <2>1, <2>2 DEF MarkedAt
<1> QED
  BY <1>1, <1>2, <1>7 DEF MarksAreBacked

LEMMA BackedMarked ==
  ASSUME IntakeInv, MarksAreBacked, NEW w \in Hooks, MarkSeen(w)
  PROVE  MarksAreBacked'
<1> DEFINE h == hook[w].alert.fp
<1>1. /\ hook \in [Hooks -> HookRec] /\ seen \in [Fingerprints -> 0 .. MaxTime \cup {Never}]
      /\ UNCHANGED <<rows, saveFaults>> /\ seen' = [seen EXCEPT ![h] = now]
      /\ hook[w].pc = "mark"
  BY DEF IntakeInv, IntakeType, MarkSeen
<1>2. PICK g \in Fingerprints : g = h
  BY <1>1 DEF IntakeInv, HookInv, Alert
<1>3. hook' = [hook EXCEPT ![w].pc = "save", ![w].marked = now]
  BY DEF MarkSeen
<1>4. /\ hook'[w].pc = "save" /\ hook'[w].alert.fp = g /\ hook'[w].marked = now
      /\ \A v \in Hooks \ {w} : hook'[v] = hook[v]
  BY <1>1, <1>2, <1>3 DEF HookRec
<1>5. seen'[g] = now /\ \A f \in Fingerprints \ {g} : seen'[f] = seen[f]
  BY <1>1, <1>2
<1> HIDE DEF h
<1>6. MarkedAt(g, seen[g])'
  BY <1>4, <1>5 DEF MarkedAt
<1>7. ASSUME NEW f \in Fingerprints \ {g}, MarkedAt(f, seen[f]) PROVE MarkedAt(f, seen[f])'
  BY <1>1, <1>4, <1>5, <1>7 DEF MarkedAt
<1> QED
  BY <1>1, <1>5, <1>6, <1>7 DEF MarksAreBacked

(* The steps of a handler that neither mark nor save.                      *)
LEMMA BackedElsewhere ==
  ASSUME IntakeInv, MarksAreBacked, NEW w \in Hooks, Receive(w) \/ Check(w) \/ Respond(w)
  PROVE  MarksAreBacked'
<1>1. /\ hook \in [Hooks -> HookRec] /\ UNCHANGED <<seen, rows, saveFaults>>
      /\ hook[w].pc # "save"
  BY DEF IntakeInv, IntakeType, Receive, Check, Respond
<1>2. \A v \in Hooks \ {w} : hook'[v] = hook[v]
  BY <1>1 DEF Receive, Check, Respond
<1>3. ASSUME NEW f, MarkedAt(f, seen[f]) PROVE MarkedAt(f, seen[f])'
  BY <1>1, <1>2, <1>3 DEF MarkedAt
<1> QED
  BY <1>1, <1>3 DEF MarksAreBacked

LEMMA BackedStep ==
  ASSUME IntakeInv, MarksAreBacked, [Next]_vars
  PROVE  MarksAreBacked'
<1>1. ASSUME UNCHANGED <<seen, rows, hook, saveFaults>> PROVE MarksAreBacked'
  BY <1>1 DEF MarksAreBacked, MarkedAt
<1>2. ASSUME NEW w \in Hooks, Webhook(w) PROVE MarksAreBacked'
  <2>1. CASE SaveAlert(w)
    <3>1. CASE saveFaults' = 0
      BY <2>1, <3>1, BackedSaved
    <3>2. CASE saveFaults' # 0
      BY <3>2 DEF MarksAreBacked
    <3> QED
      BY <3>1, <3>2
  <2> QED
    BY <1>2, <2>1, BackedMarked, BackedElsewhere DEF Webhook
<1>3. ASSUME CleanUp PROVE MarksAreBacked'
  <2>1. /\ UNCHANGED <<rows, hook, saveFaults>>
        /\ seen' = [f \in Fingerprints |-> IF Expired(f) THEN Never ELSE seen[f]]
    BY <1>3 DEF CleanUp, EvictExpired
  <2>2. \A f \in Fingerprints : seen'[f] # Never => seen'[f] = seen[f]
    BY <2>1
  <2>3. ASSUME NEW f \in Fingerprints, seen'[f] # Never, saveFaults = 0
        PROVE  MarkedAt(f, seen[f])'
    <3>1. seen'[f] = seen[f] /\ MarkedAt(f, seen[f])
      BY <2>2, <2>3 DEF MarksAreBacked
    <3> QED
      BY <2>1, <3>1 DEF MarkedAt
  <2> QED
    BY <2>1, <2>3 DEF MarksAreBacked
<1>4. CASE UNCHANGED <<seen, rows, hook, saveFaults>>
  BY <1>1, <1>4
<1> QED
  BY <1>2, <1>3, <1>4
     DEF Next, ProcessAlert, FlushLoop, Tick, Signal, CloseListener, Exit, vars, intakeVars

(* While no save fails, whatever holds an alert back stands for an alert   *)
(* that reached the table or is on its way: with NoRowLostOrDoubled, for   *)
(* one that the pipeline has or will get.                                  *)
THEOREM NoMarkWithoutAlert == Spec => []MarksAreBacked
<1>1. Init => MarksAreBacked
  BY DEF Init, IntakeInit, MarksAreBacked
<1>2. Spec => []IntakeInv
  BY IntakeInitially, IntakeStep, PTL DEF Spec
<1> QED
  BY <1>1, <1>2, BackedStep, PTL DEF Spec

-----------------------------------------------------------------------------
(* The correlator.  Everything ever submitted is in the buffer or a member *)
(* of a group.                                                             *)
Entry == [row : Nat, fp : Fingerprints, starts : Nat, pos : Nat, at : Nat]

Group == [flush : Nat, primary : Entry, members : SUBSET Entry]

Handed == todo \cup groups

Members(gs) == UNION {g.members : g \in gs}

Submitted == buffer \cup Members(Handed)

CorrelatorType ==
  /\ buffer \in SUBSET Entry /\ IsFiniteSet(buffer) /\ submits \in Nat
  /\ todo \in SUBSET Group /\ groups \in SUBSET Group
  /\ loop \in {"wait", "flush", "drain", "stopped"}
  /\ loop \in {"flush", "drain"} <=> todo # {}
  /\ main \in {"serving", "signalled", "closing", "exited"}

(* Positions identify what was submitted, and a flush is named by the      *)
(* position of something it took.                                          *)
PosInv ==
  /\ \A e \in Submitted : e.pos < submits
  /\ \A d, e \in Submitted : d.pos = e.pos => d = e
  /\ buffer \cap Members(Handed) = {}
  /\ \A g, h \in Handed : g.members \cap h.members # {} => g = h
  /\ \A g \in Handed : \E e \in Members(Handed) : e.pos = g.flush
  /\ \A e \in buffer : e.at <= now

(* A row has one owner: a handler, its goroutine, or what was submitted.   *)
RowInv ==
  /\ \A e \in Submitted : e.row \in DOMAIN rows
  /\ \A d, e \in Submitted : d.row = e.row => d = e
  /\ \A w \in Hooks, e \in Submitted : e.row \notin hook[w].kept /\ e.row \notin job[w]
  /\ \A v, w \in Hooks : hook[v].kept \cap job[w] = {}
  /\ \A v, w \in Hooks : v # w => /\ hook[v].kept \cap hook[w].kept = {}
                                  /\ job[v] \cap job[w] = {}
  /\ \A r \in DOMAIN rows : \/ \E w \in Hooks : r \in hook[w].kept \/ r \in job[w]
                            \/ \E e \in Submitted : e.row = r

(* The groups of one flush are cut as the cap and the order of firing say. *)
CutInv ==
  /\ \A g \in Handed : g.primary \in g.members /\ \A e \in g.members : g.primary.starts <= e.starts
  /\ \A g, h \in Handed : SameFlush(g, h) =>
       /\ MaxGroupSize \in {Cardinality(g.members), Cardinality(h.members)}
       /\ InOrder(g.members, h.members) \/ InOrder(h.members, g.members)

IngestInv == IntakeInv /\ CorrelatorType /\ PosInv /\ RowInv /\ CutInv

LEMMA IngestInitially == Init => IngestInv
<1> SUFFICES ASSUME Init PROVE IngestInv
  OBVIOUS
<1>1. IntakeInv
  BY IntakeInitially
<1>2. /\ buffer = {} /\ submits = 0 /\ todo = {} /\ groups = {} /\ loop = "wait" /\ main = "serving"
      /\ rows = << >>
      /\ \A w \in Hooks : job[w] = {} /\ hook[w].kept = {}
  BY DEF Init, CorrelatorInit, IntakeInit, IdleHook
<1>3. Handed = {} /\ Submitted = {} /\ DOMAIN rows = {}
  BY <1>2 DEF Handed, Submitted, Members
<1>4. CorrelatorType
  BY <1>2, FS_EmptySet DEF CorrelatorType
<1>5. PosInv
  BY <1>2, <1>3 DEF PosInv, Members
<1>6. RowInv
  BY <1>2, <1>3 DEF RowInv
<1>7. CutInv
  BY <1>3 DEF CutInv
<1> QED
  BY <1>1, <1>4, <1>5, <1>6, <1>7 DEF IngestInv

-----------------------------------------------------------------------------
(* One flush.                                                              *)
LEMMA BufferEntries ==
  ASSUME CorrelatorType, PosInv, NEW taken, taken \subseteq buffer
  PROVE  Entries(taken)
<1>1. IsFiniteSet(taken)
  BY FS_Subset DEF CorrelatorType
<1>2. \A e \in taken : e \in Entry /\ e \in Submitted
  BY DEF CorrelatorType, Submitted
<1>3. \A e \in taken : e.fp \in Fingerprints /\ e.pos \in Nat /\ e.starts \in Int
  BY <1>2 DEF Entry
<1>4. \A d, e \in taken : d.pos = e.pos => d = e
  BY <1>2 DEF PosInv
<1> QED
  BY <1>1, <1>3, <1>4 DEF Entries

LEMMA FlushIs ==
  ASSUME CorrelatorType, PosInv, NEW taken, taken \subseteq buffer
  PROVE  /\ Flush(taken) \subseteq Group
         /\ Members(Flush(taken)) = taken
         /\ \A g, h \in Flush(taken) : g.members \cap h.members # {} => g = h
         /\ \A g \in Flush(taken) : \E e \in taken : e.pos = g.flush
         /\ Flush(taken) = {} <=> taken = {}
         /\ \A g \in Flush(taken) :
              g.primary \in g.members /\ \A e \in g.members : g.primary.starts <= e.starts
         /\ \A g, h \in Flush(taken) : SameFlush(g, h) =>
              /\ MaxGroupSize \in {Cardinality(g.members), Cardinality(h.members)}
              /\ InOrder(g.members, h.members) \/ InOrder(h.members, g.members)
<1> DEFINE G(c) == [flush |-> First(taken).pos, primary |-> PickPrimary(c), members |-> c]
<1>1. Entries(taken)
  BY BufferEntries
<1>2. Flush(taken) = {G(c) : c \in Groups(taken)}
  BY DEF Flush
<1>3. Partition(Groups(taken), taken)
  BY <1>1, GroupsAre
<1>4. \A g \in Flush(taken) : /\ g.members \in Groups(taken) /\ g = G(g.members)
                              /\ g.flush = First(taken).pos /\ g.primary = PickPrimary(g.members)
  BY <1>2
<1>5. \A c \in Groups(taken) : G(c) \in Flush(taken) /\ G(c).members = c
  BY <1>2
<1>6. \A c \in Groups(taken) : c # {} /\ c \subseteq taken
  BY <1>3 DEF Partition
<1>7. \A c \in Groups(taken) : PickPrimary(c) \in c /\ \A e \in c : PickPrimary(c).starts <= e.starts
  BY <1>1, <1>6, SubEntries, PrimaryIs
<1>8. taken # {} => First(taken) \in taken
  BY <1>1, FirstExists DEF Entries
<1>9. taken \subseteq Entry
  BY DEF CorrelatorType
<1>10. ASSUME NEW g \in Flush(taken) PROVE g \in Group
  <2>1. g.members \in Groups(taken) /\ g = G(g.members)
    BY <1>4
  <2>2. First(taken) \in Entry /\ PickPrimary(g.members) \in Entry /\ g.members \subseteq Entry
    BY <1>6, <1>7, <1>8, <1>9, <2>1
  <2>3. First(taken).pos \in Nat
    BY <2>2 DEF Entry
  <2> QED
    BY <2>1, <2>2, <2>3 DEF Group
<1>11. Members(Flush(taken)) = UNION Groups(taken)
  <2>1. \A e \in Members(Flush(taken)) : e \in UNION Groups(taken)
    BY <1>4 DEF Members
  <2>2. \A e \in UNION Groups(taken) : e \in Members(Flush(taken))
    BY <1>5 DEF Members
  <2> QED
    BY <2>1, <2>2
<1>12. \A g, h \in Flush(taken) : g.members \cap h.members # {} => g = h
  <2> TAKE g, h \in Flush(taken)
  <2> HAVE g.members \cap h.members # {}
  <2>1. g.members = h.members
    BY <1>3, <1>4 DEF Partition
  <2> QED
    BY <1>4, <2>1
<1>13. \A g \in Flush(taken) : \E e \in taken : e.pos = g.flush
  <2> TAKE g \in Flush(taken)
  <2>1. taken # {}
    BY <1>4, <1>6
  <2> QED
    BY <1>4, <1>8, <2>1
<1>14. Flush(taken) = {} <=> taken = {}
  <2>1. Flush(taken) = {} => taken = {}
    BY <1>3, <1>5 DEF Partition
  <2>2. taken = {} => Flush(taken) = {}
    BY <1>13
  <2> QED
    BY <2>1, <2>2
<1>15. \A g \in Flush(taken) :
         g.primary \in g.members /\ \A e \in g.members : g.primary.starts <= e.starts
  BY <1>4, <1>7
<1>16. ASSUME NEW g \in Flush(taken), NEW h \in Flush(taken), SameFlush(g, h)
       PROVE  /\ MaxGroupSize \in {Cardinality(g.members), Cardinality(h.members)}
              /\ InOrder(g.members, h.members) \/ InOrder(h.members, g.members)
  <2>1. g.members # h.members
    BY <1>4, <1>16 DEF SameFlush
  <2>2. \E d \in g.members, e \in h.members : Linked(d, e)
    BY <1>16 DEF SameFlush
  <2>3. g.members \in Groups(taken) /\ h.members \in Groups(taken)
    BY <1>4
  <2> QED
    BY <1>1, <2>1, <2>2, <2>3, GroupsAre
<1> QED
  BY <1>3, <1>10, <1>11, <1>12, <1>13, <1>14, <1>15, <1>16 DEF Partition

(* A flush takes alerts out of the buffer and makes groups of them: they   *)
(* stay submitted, and no older group has the new flush's name.            *)
LEMMA FlushKeeps ==
  ASSUME IngestInv, IntakeInv', NEW taken, taken \subseteq buffer,
         loop = "wait", buffer' = buffer \ taken, todo' = Flush(taken),
         UNCHANGED <<now, intakeVars, submits, groups>>
  PROVE  /\ PosInv' /\ RowInv' /\ CutInv'
         /\ IsFiniteSet(buffer') /\ buffer' \subseteq Entry
         /\ todo' \subseteq Group /\ (todo' = {} <=> taken = {})
<1> USE DEF IngestInv
<1> DEFINE new == Flush(taken)
<1>1. /\ new \subseteq Group
      /\ Members(new) = taken
      /\ \A g, h \in new : g.members \cap h.members # {} => g = h
      /\ \A g \in new : \E e \in taken : e.pos = g.flush
      /\ new = {} <=> taken = {}
      /\ \A g \in new : g.primary \in g.members /\ \A e \in g.members : g.primary.starts <= e.starts
      /\ \A g, h \in new : SameFlush(g, h) =>
           /\ MaxGroupSize \in {Cardinality(g.members), Cardinality(h.members)}
           /\ InOrder(g.members, h.members) \/ InOrder(h.members, g.members)
  BY FlushIs
<1> HIDE DEF new
<1>2. todo' = new /\ todo = {}
  BY DEF CorrelatorType, new
<1>3. Handed = groups /\ Handed' = groups \cup new
  BY <1>2 DEF Handed
<1>4. /\ \A e \in Members(groups) : \E g \in groups : e \in g.members
      /\ \A g \in groups : g.members \subseteq Members(groups)
      /\ \A g \in new : g.members \subseteq taken
      /\ Members(groups \cup new) = Members(groups) \cup taken
  BY <1>1 DEF Members
<1>5. Members(Handed)' = Members(groups) \cup taken
  BY <1>3, <1>4 DEF Members
<1>6. Submitted = buffer \cup Members(groups) /\ Submitted' = Submitted
  BY <1>3, <1>5 DEF Submitted
<1>7. buffer \cap Members(groups) = {}
  BY <1>3 DEF PosInv
<1>8. \A g \in groups, h \in new : g.flush # h.flush /\ g.members \cap h.members = {}
  <2> TAKE g \in groups, h \in new
  <2>1. g.members \cap h.members = {}
    BY <1>4, <1>7
  <2>2. PICK d \in Members(groups) : d.pos = g.flush
    BY <1>3 DEF PosInv
  <2>3. PICK e \in taken : e.pos = h.flush
    BY <1>1
  <2>4. d \in Submitted /\ e \in Submitted /\ d # e
    BY <1>6, <1>7
  <2>5. d.pos # e.pos
    BY <2>4 DEF PosInv
  <2> QED
    BY <2>1, <2>2, <2>3, <2>5
<1>9. PosInv'
  <2>1. \A e \in Submitted' : e.pos < submits'
    BY <1>6 DEF PosInv
  <2>2. \A d, e \in Submitted' : d.pos = e.pos => d = e
    BY <1>6 DEF PosInv
  <2>3. buffer' \cap Members(Handed)' = {}
    BY <1>5, <1>7
  <2>4. \A g, h \in Handed' : g.members \cap h.members # {} => g = h
    <3>1. \A g, h \in groups : g.members \cap h.members # {} => g = h
      BY <1>3 DEF PosInv
    <3> QED
      BY <1>1, <1>3, <1>8, <3>1
  <2>5. \A g \in Handed' : \E e \in Members(Handed)' : e.pos = g.flush
    <3>1. \A g \in groups : \E e \in Members(groups) : e.pos = g.flush
      BY <1>3 DEF PosInv
    <3> QED
      BY <1>1, <1>3, <1>5, <3>1
  <2>6. \A e \in buffer' : e.at <= now'
    BY DEF PosInv
  <2> QED
    BY <2>1, <2>2, <2>3, <2>4, <2>5, <2>6 DEF PosInv
<1>10. RowInv'
  <2>1. UNCHANGED <<rows, hook, job>>
    BY DEF intakeVars
  <2> QED
    BY <1>6, <2>1 DEF RowInv
<1>11. CutInv'
  <2>1. \A g \in groups : g.primary \in g.members /\ \A e \in g.members : g.primary.starts <= e.starts
    BY <1>3 DEF CutInv
  <2>2. \A g, h \in groups : SameFlush(g, h) =>
          /\ MaxGroupSize \in {Cardinality(g.members), Cardinality(h.members)}
          /\ InOrder(g.members, h.members) \/ InOrder(h.members, g.members)
    BY <1>3 DEF CutInv
  <2>3. \A g \in groups, h \in new : ~ SameFlush(g, h) /\ ~ SameFlush(h, g)
    BY <1>8 DEF SameFlush
  <2>4. \A g, h \in Handed' : SameFlush(g, h) =>
          /\ MaxGroupSize \in {Cardinality(g.members), Cardinality(h.members)}
          /\ InOrder(g.members, h.members) \/ InOrder(h.members, g.members)
    BY <1>1, <1>3, <2>2, <2>3
  <2>5. \A g \in Handed' :
          g.primary \in g.members /\ \A e \in g.members : g.primary.starts <= e.starts
    BY <1>1, <1>3, <2>1
  <2> QED
    BY <2>4, <2>5 DEF CutInv
<1>12. IsFiniteSet(buffer') /\ buffer' \subseteq Entry
  <2>1. IsFiniteSet(buffer) /\ buffer' \subseteq buffer /\ buffer \subseteq Entry
    BY DEF CorrelatorType
  <2> QED
    BY <2>1, FS_Subset
<1> QED
  BY <1>1, <1>2, <1>9, <1>10, <1>11, <1>12

LEMMA FlushLoopKeeps ==
  ASSUME IngestInv, IntakeInv', FlushLoop
  PROVE  IngestInv'
<1> USE DEF IngestInv
<1>1. UNCHANGED <<now, intakeVars, main>>
  BY DEF FlushLoop
<1>2. CASE FlushDue
  <2>1. /\ loop = "wait" /\ Due # {} /\ Due \subseteq buffer
        /\ buffer' = buffer \ Due /\ todo' = Flush(Due) /\ loop' = "flush"
        /\ UNCHANGED <<submits, groups>>
    BY <1>2 DEF FlushDue, Kept, Due
  <2>2. /\ PosInv' /\ RowInv' /\ CutInv'
        /\ IsFiniteSet(buffer') /\ buffer' \subseteq Entry
        /\ todo' \subseteq Group /\ (todo' = {} <=> Due = {})
    <3> HIDE DEF IngestInv
    <3> QED
      BY <1>1, <2>1, FlushKeeps
  <2>3. CorrelatorType'
    BY <1>1, <2>1, <2>2 DEF CorrelatorType
  <2> QED
    BY <2>2, <2>3
<1>3. CASE FlushAll
  <2>1. /\ loop = "wait" /\ buffer' = buffer \ buffer /\ todo' = Flush(buffer)
        /\ loop' = IF buffer = {} THEN "stopped" ELSE "drain"
        /\ UNCHANGED <<submits, groups>>
    BY <1>3 DEF FlushAll
  <2>2. /\ PosInv' /\ RowInv' /\ CutInv'
        /\ IsFiniteSet(buffer') /\ buffer' \subseteq Entry
        /\ todo' \subseteq Group /\ (todo' = {} <=> buffer = {})
    <3> HIDE DEF IngestInv
    <3> QED
      BY <1>1, <2>1, FlushKeeps
  <2>3. CorrelatorType'
    BY <1>1, <2>1, <2>2 DEF CorrelatorType
  <2> QED
    BY <2>2, <2>3
<1>4. CASE OnGroup
  <2>1. PICK g \in todo : /\ groups' = groups \cup {g} /\ todo' = todo \ {g}
                          /\ loop' = IF todo # {g} THEN loop
                                     ELSE IF loop = "drain" THEN "stopped" ELSE "wait"
                          /\ UNCHANGED <<buffer, submits>>
    BY <1>4 DEF OnGroup
  <2>2. Handed' = Handed
    BY <2>1 DEF Handed
  <2>3. Submitted' = Submitted /\ Members(Handed)' = Members(Handed)
    BY <2>1, <2>2 DEF Submitted, Members
  <2>4. PosInv'
    BY <1>1, <2>1, <2>2, <2>3 DEF PosInv
  <2>5. RowInv'
    BY <1>1, <2>3 DEF RowInv, intakeVars
  <2>6. CutInv'
    BY <2>2 DEF CutInv
  <2>7. CorrelatorType'
    <3>1. loop \in {"flush", "drain"} /\ (todo' = {} <=> todo = {g})
      BY <2>1 DEF CorrelatorType
    <3>2. loop' \in {"wait", "flush", "drain", "stopped"} /\ (loop' \in {"flush", "drain"} <=> todo' # {})
      BY <2>1, <3>1
    <3> QED
      BY <1>1, <2>1, <3>2 DEF CorrelatorType
  <2> QED
    BY <2>4, <2>5, <2>6, <2>7
<1> QED
  BY <1>2, <1>3, <1>4 DEF FlushLoop

(* Submitting a row moves it from the goroutine into the buffer, at a      *)
(* position nobody had.                                                    *)
LEMMA ProcessKeeps ==
  ASSUME IngestInv, IntakeInv', NEW w \in Hooks, ProcessAlert(w)
  PROVE  IngestInv'
<1> USE DEF IngestInv
<1>1. PICK r \in job[w] :
        /\ Submit(r, rows[r].fp, rows[r].starts)
        /\ job' = [job EXCEPT ![w] = @ \ {r}]
        /\ UNCHANGED <<now, seen, rows, hook, saveFaults, main>>
  BY DEF ProcessAlert
<1> DEFINE x == [row |-> r, fp |-> rows[r].fp, starts |-> rows[r].starts,
                 pos |-> submits, at |-> now]
<1>2. buffer' = buffer \cup {x} /\ submits' = submits + 1 /\ UNCHANGED <<loop, todo, groups>>
  BY <1>1 DEF Submit
<1>3. r \in DOMAIN rows /\ r \in Nat /\ rows[r] \in Row /\ now \in Nat /\ submits \in Nat
  BY ClockAssumption DEF IntakeInv, IntakeType, HookInv, CorrelatorType
<1>4. x \in Entry /\ x.row = r /\ x.pos = submits /\ x.at = now
  BY <1>3 DEF Entry, Row
<1> HIDE DEF x
<1>5. /\ job'[w] = job[w] \ {r} /\ \A v \in Hooks \ {w} : job'[v] = job[v]
  BY <1>1 DEF IntakeInv, IntakeType
<1>6. Handed' = Handed /\ Submitted' = Submitted \cup {x} /\ Members(Handed)' = Members(Handed)
  BY <1>2 DEF Handed, Submitted, Members
<1>7. \A e \in Submitted : e.pos \in Int /\ e.pos < submits /\ e.row # r
  <2>1. Submitted \subseteq Entry
    BY DEF Submitted, Members, Handed, CorrelatorType, Group
  <2>2. \A e \in Submitted : e.pos \in Int
    BY <2>1 DEF Entry
  <2> QED
    BY <2>2 DEF PosInv, RowInv
<1>8. x \notin Submitted
  BY <1>4, <1>7
<1>9. CorrelatorType'
  <2>1. IsFiniteSet(buffer')
    BY <1>2, FS_AddElement DEF CorrelatorType
  <2> QED
    BY <1>1, <1>2, <1>4, <2>1 DEF CorrelatorType
<1>10. PosInv'
  <2>1. \A e \in Submitted' : e.pos < submits'
    BY <1>2, <1>3, <1>4, <1>6, <1>7
  <2>2. \A d, e \in Submitted' : d.pos = e.pos => d = e
    <3>1. \A e \in Submitted : e.pos # submits
      BY <1>3, <1>7
    <3> QED
      BY <1>4, <1>6, <3>1 DEF PosInv
  <2>3. buffer' \cap Members(Handed)' = {}
    BY <1>2, <1>6, <1>8 DEF PosInv, Submitted
  <2>4. \A g, h \in Handed' : g.members \cap h.members # {} => g = h
    BY <1>6 DEF PosInv
  <2>5. \A g \in Handed' : \E e \in Members(Handed)' : e.pos = g.flush
    BY <1>6 DEF PosInv
  <2>6. \A e \in buffer' : e.at <= now'
    BY <1>1, <1>2, <1>3, <1>4 DEF PosInv
  <2> QED
    BY <2>1, <2>2, <2>3, <2>4, <2>5, <2>6 DEF PosInv
<1>11. RowInv'
  <2>1. \A e \in Submitted' : e.row \in DOMAIN rows'
    BY <1>1, <1>3, <1>4, <1>6 DEF RowInv
  <2>2. \A d, e \in Submitted' : d.row = e.row => d = e
    BY <1>4, <1>6, <1>7 DEF RowInv
  <2>3. \A v \in Hooks, e \in Submitted' : e.row \notin hook'[v].kept /\ e.row \notin job'[v]
    <3> TAKE v \in Hooks, e \in Submitted'
    <3>1. CASE e = x
      <4>1. r \notin hook[v].kept /\ (v # w => r \notin job[v])
        BY DEF RowInv
      <4> QED
        BY <1>1, <1>4, <1>5, <3>1, <4>1
    <3>2. CASE e \in Submitted
      BY <1>1, <1>5, <3>2 DEF RowInv
    <3> QED
      BY <1>6, <3>1, <3>2
  <2>4. \A v \in Hooks : job'[v] \subseteq job[v] /\ hook'[v] = hook[v]
    BY <1>1, <1>5
  <2>5. \A u, v \in Hooks : hook'[u].kept \cap job'[v] = {}
    BY <2>4 DEF RowInv
  <2>6. \A u, v \in Hooks : u # v => hook'[u].kept \cap hook'[v].kept = {} /\ job'[u] \cap job'[v] = {}
    BY <2>4 DEF RowInv
  <2>7. \A s \in DOMAIN rows' : \/ \E v \in Hooks : s \in hook'[v].kept \/ s \in job'[v]
                                \/ \E e \in Submitted' : e.row = s
    <3> TAKE s \in DOMAIN rows'
    <3>1. CASE s = r
      BY <1>4, <1>6, <3>1
    <3>2. CASE s # r
      <4>1. \A v \in Hooks : s \in job[v] => s \in job'[v]
        BY <1>5, <3>2
      <4> QED
        BY <1>1, <1>6, <2>4, <4>1 DEF RowInv
    <3> QED
      BY <3>1, <3>2
  <2> QED
    BY <2>1, <2>2, <2>3, <2>5, <2>6, <2>7 DEF RowInv
<1>12. CutInv'
  BY <1>6 DEF CutInv
<1> QED
  BY <1>9, <1>10, <1>11, <1>12

(* Within the intake a row is born in its handler and moves to its         *)
(* goroutine.                                                              *)
LEMMA WebhookKeepsRows ==
  ASSUME IngestInv, NEW w \in Hooks, Webhook(w)
  PROVE  RowInv'
<1> USE DEF IngestInv
<1>1. UNCHANGED correlatorVars
  BY DEF Webhook
<1>2. Submitted' = Submitted
  BY <1>1 DEF correlatorVars, Submitted, Members, Handed
<1>3. hook \in [Hooks -> HookRec] /\ hook[w] \in HookRec
  BY DEF IntakeInv, IntakeType
<1>4. ASSUME UNCHANGED <<rows, job>>, \A v \in Hooks : hook'[v].kept = hook[v].kept PROVE RowInv'
  BY <1>2, <1>4 DEF RowInv
<1>5. CASE Receive(w) \/ Check(w) \/ MarkSeen(w)
  <2>1. UNCHANGED <<rows, job>>
    BY <1>5 DEF Receive, Check, MarkSeen
  <2>2. CASE Receive(w)
    <3>1. PICK p \in Payloads : hook' = [hook EXCEPT ![w].pc = "check",
                                  ![w].rest = {[fp |-> f, starts |-> p[f]] : f \in DOMAIN p}]
      BY <2>2 DEF Receive
    <3> DEFINE rest == {[fp |-> f, starts |-> p[f]] : f \in DOMAIN p}
    <3> HIDE DEF rest
    <3>2. hook' = [hook EXCEPT ![w] = [hook[w] EXCEPT !.pc = "check", !.rest = rest]]
      BY <3>1 DEF rest
    <3>3. [hook[w] EXCEPT !.pc = "check", !.rest = rest].kept = hook[w].kept
      BY <1>3 DEF HookRec
    <3>4. \A v \in Hooks : hook'[v].kept = hook[v].kept
      BY <1>3, <3>2, <3>3
    <3> QED
      BY <1>4, <2>1, <3>4
  <2>3. CASE Check(w)
    <3>1. \A v \in Hooks : hook'[v].kept = hook[v].kept
      BY <1>3, <2>3 DEF Check, HookRec
    <3> QED
      BY <1>4, <2>1, <3>1
  <2>4. CASE MarkSeen(w)
    <3>1. \A v \in Hooks : hook'[v].kept = hook[v].kept
      BY <1>3, <2>4 DEF MarkSeen, HookRec
    <3> QED
      BY <1>4, <2>1, <3>1
  <2> QED
    BY <1>5, <2>2, <2>3, <2>4
<1>6. CASE SaveAlert(w)
  <2> DEFINE n == Len(rows) + 1
  <2>1. UNCHANGED job
    BY <1>6 DEF SaveAlert
  <2>2. CASE UNCHANGED rows /\ hook' = [hook EXCEPT ![w].pc = "check"]
    <3>1. \A v \in Hooks : hook'[v].kept = hook[v].kept
      BY <1>3, <2>2 DEF HookRec
    <3> QED
      BY <1>4, <2>1, <2>2, <3>1
  <2>3. CASE /\ \E row : rows' = Append(rows, row)
             /\ hook' = [hook EXCEPT ![w].pc = "check", ![w].kept = @ \cup {n}]
    <3>1. /\ DOMAIN rows' = DOMAIN rows \cup {n} /\ n \notin DOMAIN rows
      <4>1. PICK row : rows' = Append(rows, row)
        BY <2>3
      <4>2. rows \in Seq(Row)
        BY DEF IntakeInv, IntakeType
      <4> QED
        BY <4>1, <4>2
    <3> HIDE DEF n
    <3>2. /\ hook'[w].kept = hook[w].kept \cup {n}
          /\ \A v \in Hooks \ {w} : hook'[v].kept = hook[v].kept
      BY <1>3, <2>3 DEF HookRec
    <3>3. /\ \A v \in Hooks : n \notin hook[v].kept /\ n \notin job[v]
          /\ \A e \in Submitted : e.row # n
      BY <3>1 DEF IntakeInv, HookInv, RowInv
    <3>4. \A e \in Submitted' : e.row \in DOMAIN rows'
      BY <1>2, <3>1 DEF RowInv
    <3>5. \A d, e \in Submitted' : d.row = e.row => d = e
      BY <1>2 DEF RowInv
    <3>6. \A v \in Hooks, e \in Submitted' : e.row \notin hook'[v].kept /\ e.row \notin job'[v]
      BY <1>2, <2>1, <3>2, <3>3 DEF RowInv
    <3>7. \A u, v \in Hooks : hook'[u].kept \cap job'[v] = {}
      BY <2>1, <3>2, <3>3 DEF RowInv
    <3>8. \A u, v \in Hooks : u # v => hook'[u].kept \cap hook'[v].kept = {} /\ job'[u] \cap job'[v] = {}
      BY <2>1, <3>2, <3>3 DEF RowInv
    <3>9. \A r \in DOMAIN rows' : \/ \E v \in Hooks : r \in hook'[v].kept \/ r \in job'[v]
                                  \/ \E e \in Submitted' : e.row = r
      <4> TAKE r \in DOMAIN rows'
      <4>1. CASE r = n
        BY <3>2, <4>1
      <4>2. CASE r \in DOMAIN rows
        <5>1. \A v \in Hooks : hook[v].kept \subseteq hook'[v].kept
          BY <3>2
        <5> QED
          BY <1>2, <2>1, <4>2, <5>1 DEF RowInv
      <4> QED
        BY <3>1, <4>1, <4>2
    <3> QED
      BY <3>4, <3>5, <3>6, <3>7, <3>8, <3>9 DEF RowInv
  <2> QED
    BY <1>6, <2>2, <2>3 DEF SaveAlert
<1>7. CASE Respond(w)
  <2>1. UNCHANGED rows /\ job[w] = {} /\ job \in [Hooks -> SUBSET Nat]
    BY <1>7 DEF Respond, IntakeInv, IntakeType, HookInv
  <2>2. /\ job'[w] = hook[w].kept /\ \A v \in Hooks \ {w} : job'[v] = job[v]
    BY <1>7, <2>1 DEF Respond
  <2>3. /\ hook'[w].kept = {} /\ \A v \in Hooks \ {w} : hook'[v] = hook[v]
    BY <1>3, <1>7 DEF Respond, IdleHook
  <2>4. \A v \in Hooks, e \in Submitted' : e.row \notin hook'[v].kept /\ e.row \notin job'[v]
    BY <1>2, <2>2, <2>3 DEF RowInv
  <2>5. \A u, v \in Hooks : hook'[u].kept \cap job'[v] = {}
    BY <2>2, <2>3 DEF RowInv
  <2>6. \A u, v \in Hooks : u # v => hook'[u].kept \cap hook'[v].kept = {} /\ job'[u] \cap job'[v] = {}
    BY <2>2, <2>3 DEF RowInv
  <2>7. \A r \in DOMAIN rows' : \/ \E v \in Hooks : r \in hook'[v].kept \/ r \in job'[v]
                                \/ \E e \in Submitted' : e.row = r
    <3>1. ASSUME NEW r, NEW v \in Hooks, r \in hook[v].kept \/ r \in job[v]
          PROVE  \E u \in Hooks : r \in hook'[u].kept \/ r \in job'[u]
      BY <2>1, <2>2, <2>3, <3>1
    <3> QED
      BY <1>2, <2>1, <3>1 DEF RowInv
  <2> QED
    BY <1>2, <2>1, <2>4, <2>5, <2>6, <2>7 DEF RowInv
<1> QED
  BY <1>5, <1>6, <1>7 DEF Webhook

LEMMA IngestStep ==
  ASSUME IngestInv, [Next]_vars
  PROVE  IngestInv'
<1>1. IntakeInv'
  BY IntakeStep DEF IngestInv
<1>2. ASSUME UNCHANGED correlatorVars, now \in Nat /\ now' \in Nat /\ now <= now' PROVE PosInv'
  <2>1. \A e \in buffer : e.at \in Nat
    BY DEF IngestInv, CorrelatorType, Entry
  <2>2. UNCHANGED <<buffer, submits, todo, groups>>
    BY <1>2 DEF correlatorVars
  <2>3. Submitted' = Submitted /\ Handed' = Handed /\ Members(Handed)' = Members(Handed)
    BY <2>2 DEF Submitted, Handed, Members
  <2>4. \A e \in buffer' : e.at <= now'
    BY <1>2, <2>1, <2>2 DEF IngestInv, PosInv
  <2> QED
    BY <2>2, <2>3, <2>4 DEF IngestInv, PosInv
<1>3. ASSUME UNCHANGED correlatorVars PROVE CutInv'
  BY <1>3 DEF IngestInv, CutInv, correlatorVars, Handed
<1>4. ASSUME UNCHANGED <<correlatorVars, rows, hook, job>> PROVE RowInv'
  BY <1>4 DEF IngestInv, RowInv, correlatorVars, Submitted, Handed, Members
<1>5. ASSUME UNCHANGED correlatorVars, main' \in {"serving", "signalled", "closing", "exited"}
      PROVE  CorrelatorType'
  BY <1>5 DEF IngestInv, CorrelatorType, correlatorVars
<1>6. main \in {"serving", "signalled", "closing", "exited"} /\ now \in Nat
  BY ClockAssumption DEF IngestInv, CorrelatorType, IntakeInv, IntakeType
<1>7. ASSUME NEW w \in Hooks, Webhook(w) PROVE IngestInv'
  <2>1. UNCHANGED <<now, correlatorVars, main>>
    BY <1>7 DEF Webhook
  <2>2. RowInv'
    BY <1>7, WebhookKeepsRows
  <2>3. PosInv'
    BY <1>2, <1>6, <2>1
  <2> QED
    BY <1>1, <1>3, <1>5, <1>6, <2>1, <2>2, <2>3 DEF IngestInv
<1>8. ASSUME NEW w \in Hooks, ProcessAlert(w) PROVE IngestInv'
  BY <1>1, <1>8, ProcessKeeps
<1>9. CASE FlushLoop
  BY <1>1, <1>9, FlushLoopKeeps
<1>10. ASSUME UNCHANGED <<correlatorVars, rows, hook, job>>, now' \in Nat, now <= now',
              main' \in {"serving", "signalled", "closing", "exited"}
       PROVE  IngestInv'
  BY <1>1, <1>2, <1>3, <1>4, <1>5, <1>6, <1>10 DEF IngestInv
<1>11. CASE CleanUp
  <2>1. UNCHANGED <<now, correlatorVars, rows, hook, job, main>>
    BY <1>11 DEF CleanUp, EvictExpired
  <2> QED
    BY <1>6, <1>10, <2>1
<1>12. CASE Tick
  <2>1. UNCHANGED <<correlatorVars, rows, hook, job, main>> /\ now' \in Nat /\ now <= now'
    BY <1>6, <1>12 DEF Tick, intakeVars
  <2> QED
    BY <1>6, <1>10, <2>1
<1>13. CASE Signal \/ CloseListener \/ Exit
  <2>1. UNCHANGED <<now, correlatorVars, rows, hook, job>>
    BY <1>13 DEF Signal, CloseListener, Exit, intakeVars
  <2>2. main' \in {"serving", "signalled", "closing", "exited"}
    BY <1>13 DEF Signal, CloseListener, Exit
  <2> QED
    BY <1>6, <1>10, <2>1, <2>2
<1>14. CASE UNCHANGED vars
  <2>1. UNCHANGED <<now, correlatorVars, rows, hook, job, main>>
    BY <1>14 DEF vars, intakeVars
  <2> QED
    BY <1>6, <1>10, <2>1
<1> QED
  BY <1>7, <1>8, <1>9, <1>11, <1>12, <1>13, <1>14 DEF Next

LEMMA IngestAlways == Spec => []IngestInv
  BY IngestInitially, IngestStep, PTL DEF Spec

(* TypeOK: every variable keeps its type, and the flush goroutine is in a  *)
(* flush exactly while groups of it are to be handed over.                 *)
THEOREM IngestTypeCorrect == Spec => []TypeOK
<1>1. IngestInv => TypeOK
  <2> SUFFICES ASSUME IngestInv PROVE TypeOK
    OBVIOUS
  <2> USE DEF IngestInv
  <2>1. \A r \in DOMAIN rows : rows[r].fp \in Fingerprints \ Filtered
    <3>1. \A r \in DOMAIN rows : rows[r] \in Row
      BY DEF IntakeInv, IntakeType
    <3> QED
      BY <3>1 DEF Row
  <2>2. \A w \in Hooks : /\ hook[w].pc \in {"idle", "check", "mark", "save", "done"}
                         /\ hook[w].kept \subseteq DOMAIN rows /\ job[w] \subseteq DOMAIN rows
    BY DEF IntakeInv, IntakeType, HookRec, HookInv
  <2>3. \A e \in buffer : e.row \in DOMAIN rows /\ e.pos < submits /\ e.at <= now
    BY DEF Submitted, PosInv, RowInv
  <2>4. \A g \in todo \cup groups : g.primary \in g.members /\ g.flush < submits
    <3>1. Members(Handed) \subseteq Submitted
      BY DEF Submitted
    <3> QED
      BY <3>1 DEF Handed, PosInv, CutInv
  <2> QED
    BY <2>1, <2>2, <2>3, <2>4 DEF TypeOK, IntakeInv, IntakeType, CorrelatorType
<1> QED
  BY <1>1, IngestAlways, PTL

LEMMA AtMostOne ==
  ASSUME NEW S, \A x, y \in S : x = y
  PROVE  Cardinality(S) = IF S = {} THEN 0 ELSE 1
<1>1. CASE S = {}
  BY <1>1, FS_EmptySet
<1>2. CASE S # {}
  <2>1. PICK x \in S : S = {x}
    BY <1>2
  <2> QED
    BY <1>2, <2>1, FS_Singleton
<1> QED
  BY <1>1, <1>2

LEMMA RowHasOnePlace ==
  ASSUME IngestInv, NEW r \in DOMAIN rows
  PROVE  Places(r) = 1
<1> DEFINE K == {w \in Hooks : r \in hook[w].kept}
           J == {w \in Hooks : r \in job[w]}
           B == {e \in buffer : e.row = r}
           G == {g \in todo \cup groups : r \in Rows(g.members)}
<1> USE DEF IngestInv
<1>1. \A v, w \in K : v = w
  BY DEF RowInv
<1>2. \A v, w \in J : v = w
  BY DEF RowInv
<1>3. \A d, e \in B : d = e
  BY DEF RowInv, Submitted
<1>4. \A g \in G : \E e \in Members(Handed) : e \in g.members /\ e.row = r /\ e \in Submitted
  BY DEF Rows, Members, Handed, Submitted
<1>5. \A g, h \in G : g = h
  <2> TAKE g, h \in G
  <2>1. PICK d \in Members(Handed) : d \in g.members /\ d.row = r /\ d \in Submitted
    BY <1>4
  <2>2. PICK e \in Members(Handed) : e \in h.members /\ e.row = r /\ e \in Submitted
    BY <1>4
  <2>3. d = e
    BY <2>1, <2>2 DEF RowInv
  <2> QED
    BY <2>1, <2>2, <2>3 DEF PosInv, Handed
<1>6. K # {} => J = {} /\ B = {} /\ G = {}
  <2>1. K # {} => J = {}
    BY DEF RowInv
  <2>2. K # {} => B = {}
    BY DEF RowInv, Submitted
  <2>3. K # {} => G = {}
    BY <1>4 DEF RowInv
  <2> QED
    BY <2>1, <2>2, <2>3
<1>7. J # {} => B = {} /\ G = {}
  <2>1. J # {} => B = {}
    BY DEF RowInv, Submitted
  <2>2. J # {} => G = {}
    BY <1>4 DEF RowInv
  <2> QED
    BY <2>1, <2>2
<1>8. B # {} => G = {}
  <2> SUFFICES ASSUME NEW d \in B, NEW g \in G PROVE FALSE
    OBVIOUS
  <2>1. PICK e \in Members(Handed) : e.row = r /\ e \in Submitted
    BY <1>4
  <2>2. d = e
    BY <2>1 DEF RowInv, Submitted
  <2> QED
    BY <2>1, <2>2 DEF PosInv
<1>9. K # {} \/ J # {} \/ B # {} \/ G # {}
  <2>1. CASE \E w \in Hooks : r \in hook[w].kept \/ r \in job[w]
    BY <2>1
  <2>2. CASE \E e \in Submitted : e.row = r
    <3>1. PICK e \in Submitted : e.row = r
      BY <2>2
    <3>2. CASE e \in buffer
      BY <3>1, <3>2
    <3>3. CASE e \in Members(Handed)
      <4>1. PICK g \in todo \cup groups : e \in g.members
        BY <3>3 DEF Members, Handed
      <4>2. r \in Rows(g.members)
        BY <3>1, <4>1 DEF Rows
      <4> QED
        BY <4>1, <4>2
    <3> QED
      BY <3>1, <3>2, <3>3 DEF Submitted
  <2> QED
    BY <2>1, <2>2 DEF RowInv
<1> HIDE DEF IngestInv, K, J, B, G
<1>10. /\ Cardinality(K) = IF K = {} THEN 0 ELSE 1
       /\ Cardinality(J) = IF J = {} THEN 0 ELSE 1
       /\ Cardinality(B) = IF B = {} THEN 0 ELSE 1
       /\ Cardinality(G) = IF G = {} THEN 0 ELSE 1
  BY <1>1, <1>2, <1>3, <1>5, AtMostOne
<1>11. Places(r) = Cardinality(K) + Cardinality(J) + Cardinality(B) + Cardinality(G)
  BY DEF Places, K, J, B, G
<1> QED
  BY <1>6, <1>7, <1>8, <1>9, <1>10, <1>11

(* EachRowInOnePlace: while the process lives a saved alert is in exactly  *)
(* one of the handler, its goroutine, the buffer, the flush and a group,   *)
(* whatever the handlers, the correlator and the shutdown do.              *)
THEOREM NoRowLostOrDoubled == Spec => []EachRowInOnePlace
<1>1. IngestInv => EachRowInOnePlace
  BY RowHasOnePlace DEF EachRowInOnePlace
<1> QED
  BY <1>1, IngestAlways, PTL

(* SplitOnlyByCap: groups of one flush that share a label value are pieces *)
(* of one oversize cluster, and at most one of them is not full.           *)
THEOREM OnlyTheCapSplits == Spec => []SplitOnlyByCap
<1>1. IngestInv => SplitOnlyByCap
  BY DEF IngestInv, CutInv, SplitOnlyByCap, Handed
<1> QED
  BY <1>1, IngestAlways, PTL

(* RootCauseFirst: the primary alert of a group fired first in it, and of  *)
(* two pieces of a cluster one is entirely before the other.               *)
THEOREM PrimaryFiredFirst == Spec => []RootCauseFirst
<1>1. ASSUME IngestInv PROVE RootCauseFirst
  <2>1. \A g \in todo \cup groups : \A e \in g.members : g.primary.starts <= e.starts
    BY <1>1 DEF IngestInv, CutInv, Handed
  <2>2. \A g, h \in todo \cup groups : SameFlush(g, h) =>
          InOrder(g.members, h.members) \/ InOrder(h.members, g.members)
    BY <1>1 DEF IngestInv, CutInv, Handed
  <2>3. \A g, h : InOrder(g, h) <=> \A d \in g, e \in h : Before(d, e)
    BY DEF InOrder
  <2>4. \A g, h \in todo \cup groups : SameFlush(g, h) =>
          \/ \A d \in g.members, e \in h.members : Before(d, e)
          \/ \A d \in g.members, e \in h.members : Before(e, d)
    BY <2>2, <2>3
  <2> QED
    BY <2>1, <2>4 DEF RootCauseFirst
<1> QED
  BY <1>1, IngestAlways, PTL
=============================================================================
