----------------------------- MODULE LarkToken -----------------------------
(***************************************************************************)
(* The tenant access token of internal/notifier/lark.go, which every call  *)
(* to Lark asks for first: a cached token, its expiry, and the mutex that  *)
(* is held while a new one is fetched.  A call is named by the request it  *)
(* is made for, and its step is that request's pc:                         *)
(*   "ask" -> "take" -> "send"                 the cached token will do    *)
(*   "ask" -> "refresh" -> "fetch" -> "take"   it has to be fetched        *)
(*                                                                         *)
(* A definition X_Variant before a definition X is X with a bug in it; the *)
(* mutation runs put it in X's place, and nothing else refers to it.       *)
(***************************************************************************)
EXTENDS Integers

CONSTANTS
  Requests,    \* the requests whose goroutines call Lark
  Lifetime,    \* how long a fetched token is valid
  Buffer,      \* how long before its expiry a token is no longer used
  MaxTime      \* bound on the clock

ASSUME TokenAssumption == Lifetime \in Nat /\ Buffer \in 0..Lifetime /\ MaxTime \in Nat

VARIABLES
  now,
  pc,          \* what each request does next
  expiry,      \* when the cached token expires, NoToken without one
  mutex        \* who holds it across an HTTP call, Nobody when it is free

tokenVars == <<expiry, mutex>>

NoToken == -1
Nobody == 0

TokenInit == expiry = NoToken /\ mutex = Nobody

(* Time.Before is strict: on the boundary the token is already too old.    *)
Usable == expiry # NoToken /\ now < expiry - Buffer

Move(r, from, to) == pc[r] = from /\ pc' = [pc EXCEPT ![r] = to]

(* getToken looks under the mutex and lets go of it.                       *)
AskToken(r) ==
  /\ mutex = Nobody
  /\ Move(r, "ask", IF Usable THEN "take" ELSE "refresh")
  /\ UNCHANGED tokenVars

(* refreshToken looks again, for another call may have fetched by now, and *)
(* keeps the mutex for the fetch.                                          *)
LockRefresh_NoRecheck(r) ==
  /\ mutex = Nobody
  /\ Move(r, "refresh", "fetch") /\ mutex' = r
  /\ UNCHANGED expiry
LockRefresh(r) ==
  /\ mutex = Nobody
  /\ \/ Usable /\ Move(r, "refresh", "take") /\ mutex' = mutex
     \/ ~Usable /\ Move(r, "refresh", "fetch") /\ mutex' = r
  /\ UNCHANGED expiry

FetchToken(r) ==
  /\ Move(r, "fetch", "take")
  /\ expiry' = now + Lifetime
  /\ mutex' = Nobody

(* The deferred Unlock frees the mutex on every way out, and the old token *)
(* stays.                                                                  *)
FetchFails_KeepsMutex(r) ==
  /\ Move(r, "fetch", "done")
  /\ UNCHANGED tokenVars
FetchFails(r) ==
  /\ Move(r, "fetch", "done")
  /\ mutex' = Nobody
  /\ UNCHANGED expiry

TakeToken(r) ==
  /\ mutex = Nobody
  /\ Move(r, "take", "send")
  /\ UNCHANGED tokenVars

(* While a token is fetched the cached one is of no use: however many      *)
(* calls find it expired at once, the first to get the mutex fetches, and  *)
(* the others, waiting for it, use what that one got.                      *)
FetchOnlyWhenNeeded == mutex # Nobody => ~Usable

=============================================================================
