------------------------------ MODULE Sessions ------------------------------
(***************************************************************************)
(* Sessions: refresh tokens that rotate (src/src/auth/tokens.ts and        *)
(* src/src/routes/auth.ts), the links that reset a password                *)
(* (src/src/auth/passwordReset.ts) and the change of a password            *)
(* (src/src/routes/me.ts), both of which sign devices out.                 *)
(*                                                                         *)
(* The tokens a device goes through are one family.  A transaction that    *)
(* revokes looks for the tokens to revoke when its UPDATE starts, then     *)
(* waits for each one that is locked; a token that appears meanwhile it    *)
(* does not see.  What keeps one from appearing is the lock on the user's  *)
(* row: inserting a token shares a key lock on it (the foreign key), which *)
(* FOR UPDATE excludes and a plain UPDATE of the password does not.        *)
(***************************************************************************)
CONSTANTS
    Users,       \* users.id
    Tokens,      \* refresh_tokens.id
    Links,       \* password_resets.id
    Requests,    \* HTTP requests the server can have in flight at once
    None         \* SQL NULL, a missing row, an idle request

ASSUME NoneAssumption == None \notin Tokens \cup Requests

VARIABLES
    tokens,      \* refresh_tokens
    links,       \* password_resets
    requests     \* the requests in flight

vars == <<tokens, links, requests>>

\* family: family_id, named after the token the device signed in with.
Token == [user : Users, family : Tokens, live : BOOLEAN, expired : BOOLEAN,
          replaced_by : Tokens \cup {None}]

\* by: the request that set a password with it.
Link == [user : Users, state : {"open", "used", "superseded"}, expired : BOOLEAN,
         by : Requests \cup {None}]

\* victims: what the revoking UPDATE has found and not come to yet; held: the
\* rows it has changed, and so locked, in a transaction that is still open.
Revoking == {"reuse", "logout", "reset", "change"}

Request ==
    [op : {"rotate"}, token : Tokens]
      \cup [op : {"reuse", "logout"}, token : Tokens, victims : SUBSET Tokens,
            held : SUBSET Tokens]
      \cup [op : {"claim"}, link : Links]
      \cup [op : {"reset"}, link : Links, victims : SUBSET Tokens, held : SUBSET Tokens]
      \cup [op : {"change"}, user : Users, families : SUBSET Tokens,
            victims : SUBSET Tokens, held : SUBSET Tokens]
      \cup [op : {"ask"}, user : Users, found : SUBSET Links]

\* A row is never NULL, nor is a request at work idle.
ASSUME RowAssumption == None \notin Token \cup Link \cup Request

TypeOK ==
    /\ tokens \in [Tokens -> Token \cup {None}]
    /\ links \in [Links -> Link \cup {None}]
    /\ requests \in [Requests -> Request \cup {None}]

Init ==
    /\ tokens = [t \in Tokens |-> None]
    /\ links = [l \in Links |-> None]
    /\ requests = [r \in Requests |-> None]
-----------------------------------------------------------------------------
Issued == {t \in Tokens : tokens[t] # None}
Live == {t \in Issued : tokens[t].live}
LiveOf(u) == {t \in Live : tokens[t].user = u}
FamilyOf(t) == {s \in Issued : tokens[s].family = tokens[t].family}

Sent == {l \in Links : links[l] # None}
OpenLinks(u) == {l \in Sent : links[l].user = u /\ links[l].state = "open"}

Idle(r) == requests[r] = None
Doing(r, op) == requests[r] # None /\ requests[r].op = op
Finish(r) == requests' = [requests EXCEPT ![r] = None]
Revokes(r) == requests[r] # None /\ requests[r].op \in Revoking

\* Mutant: tokens are read without FOR UPDATE.
NeverLocked(t) == t \notin Tokens

\* FOR UPDATE OF rt, and the rows an open revocation has changed.
Locked(t) ==
    \E r \in Requests :
        \/ (Doing(r, "rotate") \/ Doing(r, "reuse")) /\ requests[r].token = t
        \/ Revokes(r) /\ t \in requests[r].held

\* Mutant: the link is read without FOR UPDATE.
NeverClaimed(l) == l \notin Links

\* claimResetToken: FOR UPDATE.
Claimed(l) ==
    \E r \in Requests : (Doing(r, "claim") \/ Doing(r, "reset")) /\ requests[r].link = l

Resetting(r, u) == Doing(r, "reset") /\ links[requests[r].link].user = u

\* Mutant: the reset reads the user without FOR UPDATE OF u.
NeverBarred(u) == u \notin Users

\* No token or link can be inserted for the user: FOR UPDATE OF u excludes the key
\* lock that the foreign key takes.
Barred(u) == \E r \in Requests : Resetting(r, u)

\* The user's row is locked against another change of the password.
Changing(u) ==
    \E r \in Requests : Resetting(r, u) \/ (Doing(r, "change") /\ requests[r].user = u)

FirstToken(u, n) == [user |-> u, family |-> n, live |-> TRUE, expired |-> FALSE,
                     replaced_by |-> None]
Successor(t, n) == FirstToken(tokens[t].user, tokens[t].family)
Replaced(token, n) == [token EXCEPT !.live = FALSE, !.replaced_by = n]
-----------------------------------------------------------------------------
(***************************************************************************)
(* A device signs in, and from then on exchanges its token for the next.   *)
(***************************************************************************)
\* issueSession, after a code by email or for a demo account.
SignIn(u) ==
    /\ ~Barred(u)
    /\ \E n \in Tokens \ Issued : tokens' = [tokens EXCEPT ![n] = FirstToken(u, n)]
    /\ UNCHANGED <<links, requests>>

\* The token presented is locked and looked at.  One that was exchanged or revoked
\* before takes its family with it.
StartRefresh(r, t) ==
    /\ Idle(r)
    /\ t \in Issued
    /\ ~Locked(t)
    /\ \/ /\ tokens[t].live /\ ~tokens[t].expired
          /\ requests' = [requests EXCEPT ![r] = [op |-> "rotate", token |-> t]]
       \/ /\ ~tokens[t].live
          /\ requests' = [requests EXCEPT ![r] =
                 [op |-> "reuse", token |-> t, victims |-> FamilyOf(t) \cap Live,
                  held |-> {}]]
    /\ UNCHANGED <<tokens, links>>

Rotate(r) ==
    /\ Doing(r, "rotate")
    /\ LET t == requests[r].token
       IN /\ ~Barred(tokens[t].user)
          /\ \E n \in Tokens \ Issued :
               tokens' = [tokens EXCEPT ![t] = Replaced(@, n), ![n] = Successor(t, n)]
    /\ Finish(r)
    /\ UNCHANGED links
-----------------------------------------------------------------------------
(***************************************************************************)
(* Revoking: a logout, a reused token, a reset, a change of the password.  *)
(***************************************************************************)
Logout(r, t) ==
    /\ Idle(r)
    /\ t \in Issued
    /\ requests' = [requests EXCEPT ![r] =
           [op |-> "logout", token |-> t, victims |-> FamilyOf(t) \cap Live, held |-> {}]]
    /\ UNCHANGED <<tokens, links>>

ClaimLink(r, l) ==
    /\ Idle(r)
    /\ l \in Sent
    /\ ~Claimed(l)
    /\ links[l].state = "open" /\ ~links[l].expired
    /\ requests' = [requests EXCEPT ![r] = [op |-> "claim", link |-> l]]
    /\ UNCHANGED <<tokens, links>>

\* FOR UPDATE OF u, the new password, and the start of the revoking UPDATE.
StartReset(r) ==
    /\ Doing(r, "claim")
    /\ LET l == requests[r].link
       IN /\ ~Changing(links[l].user)
          /\ requests' = [requests EXCEPT ![r] =
                 [op |-> "reset", link |-> l, victims |-> LiveOf(links[l].user),
                  held |-> {}]]
    /\ UNCHANGED <<tokens, links>>

\* The new password, and the start of an UPDATE that spares the token of the device
\* that makes the change, if it sent one.
StartChange(r, u, keeping) ==
    /\ Idle(r)
    /\ ~Changing(u)
    /\ keeping # None => keeping \in Issued /\ tokens[keeping].user = u
    /\ LET victims == LiveOf(u) \ {keeping}
       IN requests' = [requests EXCEPT ![r] =
              [op |-> "change", user |-> u, families |-> {tokens[t].family : t \in victims},
               victims |-> victims, held |-> {}]]
    /\ UNCHANGED <<tokens, links>>

\* The UPDATE comes to one of its rows: it waits while that is locked, and leaves it
\* alone when it has been revoked by then.
RevokeNext(r, t) ==
    /\ Revokes(r)
    /\ t \in requests[r].victims
    /\ ~Locked(t)
    /\ requests' = [requests EXCEPT ![r].victims = @ \ {t},
                                    ![r].held = IF t \in Live THEN @ \cup {t} ELSE @]
    /\ UNCHANGED <<tokens, links>>

\* The transaction commits.
Revoke(r) ==
    /\ requests[r].victims = {}
    /\ tokens' = [t \in Tokens |-> IF t \in requests[r].held
                                   THEN [tokens[t] EXCEPT !.live = FALSE] ELSE tokens[t]]
    /\ Finish(r)

EndSession(r) ==
    /\ Doing(r, "reuse") \/ Doing(r, "logout")
    /\ Revoke(r)
    /\ UNCHANGED links

EndReset(r) ==
    /\ Doing(r, "reset")
    /\ Revoke(r)
    /\ links' = [links EXCEPT ![requests[r].link].state = "used",
                              ![requests[r].link].by = r]

EndChange(r) ==
    /\ Doing(r, "change")
    /\ Revoke(r)
    /\ UNCHANGED links

\* A reset link is asked for: the ones still open are superseded, a new one is sent.
AskLink(r, u) ==
    /\ Idle(r)
    /\ requests' = [requests EXCEPT ![r] =
           [op |-> "ask", user |-> u, found |-> OpenLinks(u)]]
    /\ UNCHANGED <<tokens, links>>

SendLink(r) ==
    /\ Doing(r, "ask")
    /\ LET u == requests[r].user
           found == requests[r].found
       IN /\ \A l \in found : ~Claimed(l)
          /\ ~Barred(u)
          /\ \E new \in Links \ Sent :
               links' = [l \in Links |->
                   CASE l = new -> [user |-> u, state |-> "open", expired |-> FALSE,
                                    by |-> None]
                     [] l \in found \cap OpenLinks(u) ->
                                   [links[l] EXCEPT !.state = "superseded"]
                     [] OTHER -> links[l]]
    /\ Finish(r)
    /\ UNCHANGED tokens

TokenExpires(t) ==
    /\ t \in Issued /\ ~tokens[t].expired
    /\ tokens' = [tokens EXCEPT ![t].expired = TRUE]
    /\ UNCHANGED <<links, requests>>

LinkExpires(l) ==
    /\ l \in Sent /\ ~links[l].expired
    /\ links' = [links EXCEPT ![l].expired = TRUE]
    /\ UNCHANGED <<tokens, requests>>

\* A restart, a failed statement, or a deadlock the database breaks by aborting
\* one of the two: the transaction is rolled back.
Fail(r) ==
    /\ ~Idle(r)
    /\ Finish(r)
    /\ UNCHANGED <<tokens, links>>
-----------------------------------------------------------------------------
Start(r) ==
    \/ \E t \in Tokens : StartRefresh(r, t) \/ Logout(r, t)
    \/ \E l \in Links : ClaimLink(r, l)
    \/ \E u \in Users, keeping \in Tokens \cup {None} : StartChange(r, u, keeping)
    \/ \E u \in Users : AskLink(r, u)

Continue(r) ==
    \/ Rotate(r)
    \/ StartReset(r)
    \/ \E t \in Tokens : RevokeNext(r, t)
    \/ EndSession(r)
    \/ EndReset(r)
    \/ EndChange(r)
    \/ SendLink(r)
    \/ Fail(r)

Next ==
    \/ \E u \in Users : SignIn(u)
    \/ \E r \in Requests : Start(r) \/ Continue(r)
    \/ \E t \in Tokens : TokenExpires(t)
    \/ \E l \in Links : LinkExpires(l)

Spec == Init /\ [][Next]_vars
-----------------------------------------------------------------------------
\* A device has one token that can be exchanged, however many refreshes present the
\* same one at once.
OneLiveTokenPerDevice ==
    \A s, t \in Live : tokens[s].family = tokens[t].family => s = t

\* A token is exchanged for one other, of the same device; the line does not fork.
RotationIsALine ==
    \A t \in Issued : tokens[t].replaced_by # None =>
        LET n == tokens[t].replaced_by
        IN /\ n \in Issued
           /\ tokens[n].family = tokens[t].family
           /\ ~tokens[t].live
           /\ \A s \in Issued : tokens[s].replaced_by = n => s = t

\* "A password reset revokes every session" (README.md:522): at the end of a reset,
\* no token of the user is live, one that a racing refresh produced included.
NothingSurvivesAReset ==
    [][\A r \in Requests : EndReset(r) =>
         \A t \in Issued' : tokens'[t].user = links[requests[r].link].user
                              => ~tokens'[t].live]_vars

\* A link that has set a password, or that a later one has superseded, sets none again.
LinksAreSpent ==
    [][\A l \in Sent : links[l].state # "open" =>
         links'[l].state = links[l].state /\ links'[l].by = links[l].by]_vars

\* Families of rotating tokens implement sessions of devices.  What a revocation has
\* found and changed are the sessions it is to end and has reached; a rotation renews
\* a session, and takes it out of the reach of what waits for the token it exchanged.
Families == {tokens[t].family : t \in Issued}
OpenFamilies == {tokens[t].family : t \in Live}
FamiliesAsked == [r \in Requests |->
    IF Revokes(r) THEN {tokens[t].family : t \in requests[r].victims \cap Live} ELSE {}]
FamiliesReached == [r \in Requests |->
    IF Revokes(r) THEN {tokens[t].family : t \in requests[r].held \cap Live} ELSE {}]
Abstract == INSTANCE DeviceSessions
                WITH Devices <- Tokens, signedIn <- Families, open <- OpenFamilies,
                     asked <- FamiliesAsked, reached <- FamiliesReached

\* Every revocation ends the sessions it is asked to end, but for those renewed before
\* it reached them, and no others; a session that has ended does not come back.
DeviceSessionsAreKept == Abstract!Spec
-----------------------------------------------------------------------------
\* "A password change keeps the session that made it and revokes the rest"
\* (README.md:522-523): the sessions the change set out to end have ended with it.
OtherDevicesAreSignedOut ==
    [][\A r \in Requests : EndChange(r) =>
         \A t \in Issued' : tokens'[t].live
                              => tokens'[t].family \notin requests[r].families]_vars

\* "refresh token reuse detected; family revoked" (auth.ts:295), and so at a logout
\* (auth.ts:333): when it commits no token of the family it revokes is live.
FamilyIsRevoked ==
    [][\A r \in Requests : EndSession(r) =>
         \A t \in Issued' : tokens'[t].live
                              => tokens'[t].family # tokens[requests[r].token].family]_vars
=============================================================================
