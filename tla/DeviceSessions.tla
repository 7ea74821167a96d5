--------------------------- MODULE DeviceSessions ---------------------------
(***************************************************************************)
(* What sessions promise: a device signs in and has a session until it is  *)
(* signed out, by itself, by another device, or by a change or a reset of  *)
(* the password.  Signing out takes time: a request is asked to end some   *)
(* sessions, reaches them one after the other, and ends those it reached   *)
(* together.  A session it has reached is not renewed any more and ends    *)
(* with it, unless the request fails; one that is renewed before goes on,  *)
(* whoever is about to end it.  A session that has ended stays ended.      *)
(***************************************************************************)
CONSTANTS
    Devices,        \* one name for each signing-in
    Requests        \* the requests that end sessions

VARIABLES
    signedIn,       \* the signings-in there have been
    open,           \* those whose session goes on
    asked,          \* the sessions each request is still to reach
    reached         \* the sessions each request has reached

vars == <<signedIn, open, asked, reached>>

Nobody == [r \in Requests |-> {}]

Init == signedIn = {} /\ open = {} /\ asked = Nobody /\ reached = Nobody

Reached(d) == \E r \in Requests : d \in reached[r]

\* From now on no request is to reach these.
NotAsked(sessions) == asked' = [r \in Requests |-> asked[r] \ sessions]

SignIn(d) ==
    /\ d \notin signedIn
    /\ signedIn' = signedIn \cup {d}
    /\ open' = open \cup {d}
    /\ UNCHANGED <<asked, reached>>

Renew(d) ==
    /\ d \in open /\ ~Reached(d)
    /\ NotAsked({d})
    /\ UNCHANGED <<signedIn, open, reached>>

AskOut(r, sessions) ==
    /\ asked[r] = {} /\ reached[r] = {}
    /\ sessions \subseteq open
    /\ asked' = [asked EXCEPT ![r] = sessions]
    /\ UNCHANGED <<signedIn, open, reached>>

Reach(r, d) ==
    /\ d \in asked[r] /\ ~Reached(d)
    /\ asked' = [asked EXCEPT ![r] = @ \ {d}]
    /\ reached' = [reached EXCEPT ![r] = @ \cup {d}]
    /\ UNCHANGED <<signedIn, open>>

SignOut(r) ==
    /\ asked[r] = {}
    /\ open' = open \ reached[r]
    /\ NotAsked(reached[r])
    /\ reached' = [reached EXCEPT ![r] = {}]
    /\ UNCHANGED signedIn

GiveUp(r) ==
    /\ asked' = [asked EXCEPT ![r] = {}]
    /\ reached' = [reached EXCEPT ![r] = {}]
    /\ UNCHANGED <<signedIn, open>>

Next ==
    \/ \E d \in Devices : SignIn(d) \/ Renew(d)
    \/ \E r \in Requests, sessions \in SUBSET Devices : AskOut(r, sessions)
    \/ \E r \in Requests, d \in Devices : Reach(r, d)
    \/ \E r \in Requests : SignOut(r) \/ GiveUp(r)

Spec == Init /\ [][Next]_vars
=============================================================================
