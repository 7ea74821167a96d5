---------------------------- MODULE BrowserProofs ----------------------------
(***************************************************************************)
(* Theorems about what browsers and the server keep between them: the      *)
(* sessions (Sessions), for any number of users, tokens, links and         *)
(* requests, and the review of photographed pages (Review), for any number *)
(* of officers, pages, photographs, limits and saves under way.            *)
(***************************************************************************)
EXTENDS Sessions, Review, TLAPS


LockedBy(r) ==
    {t \in Tokens : \/ (Doing(r, "rotate") \/ Doing(r, "reuse")) /\ requests[r].token = t
                    \/ Revokes(r) /\ t \in requests[r].held}

ClaimedBy(r) ==
    {l \in Links : (Doing(r, "claim") \/ Doing(r, "reset")) /\ requests[r].link = l}

\* A family bears the name of a token there is.
FamiliesAreNamed == \A t \in Issued : tokens[t].family \in Issued

\* What a refresh has locked stays as it read it.
RotatesALiveToken == \A r \in Requests : Doing(r, "rotate") => requests[r].token \in Live

\* A revocation has found rows that are there, and what it holds stays live until it ends.
HoldsTokens ==
    \A r \in Requests : Revokes(r) =>
        requests[r].victims \subseteq Issued /\ requests[r].held \subseteq Live

TokenLocksExclude ==
    \A r, s \in Requests : \A t \in Tokens : t \in LockedBy(r) /\ t \in LockedBy(s) => r = s

LinkLocksExclude ==
    \A r, s \in Requests : \A l \in Links : l \in ClaimedBy(r) /\ l \in ClaimedBy(s) => r = s

ClaimsAnOpenLink ==
    \A r \in Requests : Doing(r, "claim") \/ Doing(r, "reset") =>
        requests[r].link \in Sent /\ links[requests[r].link].state = "open"

\* A reset misses no live token of its user.
ResetHasThemAll ==
    \A r \in Requests : Doing(r, "reset") =>
        LiveOf(links[requests[r].link].user) \subseteq requests[r].victims \cup requests[r].held

IInv ==
    /\ TypeOK
    /\ FamiliesAreNamed
    /\ OneLiveTokenPerDevice
    /\ RotationIsALine
    /\ RotatesALiveToken
    /\ HoldsTokens
    /\ TokenLocksExclude
    /\ LinkLocksExclude
    /\ ClaimsAnOpenLink
    /\ ResetHasThemAll
-----------------------------------------------------------------------------
\* A request that takes a step leaves the others' locks alone.
LEMMA OthersKeepTheirLocks ==
    ASSUME TypeOK, NEW r \in Requests, NEW x, requests' = [requests EXCEPT ![r] = x]
    PROVE  /\ requests'[r] = x
           /\ \A s \in Requests \ {r} :
                /\ requests'[s] = requests[s]
                /\ LockedBy(s)' = LockedBy(s)
                /\ ClaimedBy(s)' = ClaimedBy(s)
<1>1. requests'[r] = x /\ \A s \in Requests \ {r} : requests'[s] = requests[s]
  BY DEF TypeOK
<1>2. \A s \in Requests \ {r} : LockedBy(s)' = LockedBy(s)
  BY <1>1 DEF LockedBy, Doing, Revokes
<1>3. \A s \in Requests \ {r} : ClaimedBy(s)' = ClaimedBy(s)
  BY <1>1 DEF ClaimedBy, Doing
<1> QED
  BY <1>1, <1>2, <1>3

LEMMA LockedIsLockedBySome ==
    /\ \A t \in Tokens : Locked(t) <=> \E r \in Requests : t \in LockedBy(r)
    /\ \A l \in Links : Claimed(l) <=> \E r \in Requests : l \in ClaimedBy(r)
<1>1. \A t \in Tokens : Locked(t) <=> \E r \in Requests : t \in LockedBy(r)
  BY DEF Locked, LockedBy
<1>2. \A l \in Links : Claimed(l) <=> \E r \in Requests : l \in ClaimedBy(r)
  BY DEF Claimed, ClaimedBy
<1> QED
  BY <1>1, <1>2

\* Locks still exclude when a request takes only those that are free.
LEMMA LocksTakenAreFree ==
    ASSUME TypeOK, TokenLocksExclude, LinkLocksExclude, NEW r \in Requests, NEW x,
           requests' = [requests EXCEPT ![r] = x],
           \A t \in Tokens : t \in LockedBy(r)' => t \in LockedBy(r) \/ ~Locked(t),
           \A l \in Links : l \in ClaimedBy(r)' => l \in ClaimedBy(r) \/ ~Claimed(l)
    PROVE  TokenLocksExclude' /\ LinkLocksExclude'
<1>1. \A s \in Requests \ {r} : LockedBy(s)' = LockedBy(s) /\ ClaimedBy(s)' = ClaimedBy(s)
  BY OthersKeepTheirLocks
<1>2. \A t \in Tokens : t \in LockedBy(r)' =>
        \A s \in Requests \ {r} : t \notin LockedBy(s)
  BY LockedIsLockedBySome DEF TokenLocksExclude
<1>3. \A l \in Links : l \in ClaimedBy(r)' =>
        \A s \in Requests \ {r} : l \notin ClaimedBy(s)
  BY LockedIsLockedBySome DEF LinkLocksExclude
<1>4. TokenLocksExclude'
  BY <1>1, <1>2 DEF TokenLocksExclude
<1>5. LinkLocksExclude'
  BY <1>1, <1>3 DEF LinkLocksExclude
<1> QED
  BY <1>4, <1>5

\* What a request at work refers to.
LEMMA RequestParts ==
    ASSUME TypeOK, NEW r \in Requests, requests[r] # None
    PROVE  /\ requests[r] \in Request
           /\ Doing(r, "rotate") \/ Doing(r, "reuse") => requests[r].token \in Tokens
           /\ Doing(r, "claim") \/ Doing(r, "reset") => requests[r].link \in Links
           /\ Revokes(r) => /\ requests[r].victims \subseteq Tokens
                            /\ requests[r].held \subseteq Tokens
           /\ Doing(r, "ask") => /\ requests[r].user \in Users
                                 /\ requests[r].found \subseteq Links
<1>1. requests[r] \in Request
  BY DEF TypeOK
<1> QED
  BY <1>1 DEF Request, Doing, Revokes, Revoking

LEMMA RowParts ==
    ASSUME TypeOK
    PROVE  /\ \A t \in Issued : tokens[t] \in Token /\ tokens[t] # None
           /\ \A l \in Sent : links[l] \in Link /\ links[l] # None
BY DEF TypeOK, Issued, Sent
-----------------------------------------------------------------------------
\* A step that changes one request and no row.
LEMMA RequestsChange ==
    ASSUME IInv, NEW r \in Requests, NEW x \in Request \cup {None},
           requests' = [requests EXCEPT ![r] = x], UNCHANGED <<tokens, links>>,
           \A t \in Tokens : t \in LockedBy(r)' => t \in LockedBy(r) \/ ~Locked(t),
           \A l \in Links : l \in ClaimedBy(r)' => l \in ClaimedBy(r) \/ ~Claimed(l),
           x # None /\ x.op = "rotate" => x.token \in Live,
           x # None /\ x.op \in Revoking => x.victims \subseteq Issued /\ x.held \subseteq Live,
           x # None /\ x.op \in {"claim", "reset"} =>
               x.link \in Sent /\ links[x.link].state = "open",
           x # None /\ x.op = "reset" =>
               LiveOf(links[x.link].user) \subseteq x.victims \cup x.held
    PROVE  IInv'
<1>1. requests'[r] = x /\ \A s \in Requests \ {r} : requests'[s] = requests[s]
  BY OthersKeepTheirLocks DEF IInv
<1>2. TypeOK'
  BY DEF IInv, TypeOK
<1>3. FamiliesAreNamed' /\ OneLiveTokenPerDevice' /\ RotationIsALine'
  BY DEF IInv, FamiliesAreNamed, OneLiveTokenPerDevice, RotationIsALine, Issued, Live
<1>4. TokenLocksExclude' /\ LinkLocksExclude'
  BY LocksTakenAreFree DEF IInv
<1>5. RotatesALiveToken'
  BY <1>1 DEF IInv, RotatesALiveToken, Doing, Live, Issued
<1>6. ClaimsAnOpenLink'
  BY <1>1 DEF IInv, ClaimsAnOpenLink, Doing, Sent
<1>7. ResetHasThemAll'
  BY <1>1 DEF IInv, ResetHasThemAll, Doing, LiveOf, Live, Issued
<1>8. HoldsTokens'
  BY <1>1 DEF IInv, HoldsTokens, Revokes, Issued, Live
<1> QED
  BY <1>2, <1>3, <1>4, <1>5, <1>6, <1>7, <1>8 DEF IInv

\* A step that changes rows, and may end requests: it takes no row from under a
\* request that goes on, and gives no token to a user who is barred.
LEMMA RowsChange ==
    ASSUME IInv, Issued \subseteq Issued',
           \A s \in Requests : requests'[s] = requests[s] \/ requests'[s] = None,
           \A t \in Live : \/ t \in Live'
                           \/ \E s \in Requests : requests'[s] = None /\ t \in LockedBy(s),
           \A l \in Sent :
               /\ l \in Sent'
               /\ links'[l].user = links[l].user
               /\ \/ links'[l].state = links[l].state
                  \/ ~Claimed(l)
                  \/ \E s \in Requests : requests'[s] = None /\ l \in ClaimedBy(s),
           \A t \in Live' : \/ ~Barred(tokens'[t].user)
                            \/ t \in Live /\ tokens'[t].user = tokens[t].user
    PROVE  /\ TokenLocksExclude' /\ LinkLocksExclude' /\ HoldsTokens'
           /\ RotatesALiveToken' /\ ClaimsAnOpenLink' /\ ResetHasThemAll'
<1>1. \A s \in Requests :
        /\ LockedBy(s)' \subseteq LockedBy(s)
        /\ ClaimedBy(s)' \subseteq ClaimedBy(s)
  BY DEF LockedBy, ClaimedBy, Doing, Revokes
<1>2. TokenLocksExclude' /\ LinkLocksExclude'
  <2>1. TokenLocksExclude'
    BY <1>1 DEF IInv, TokenLocksExclude
  <2>2. LinkLocksExclude'
    BY <1>1 DEF IInv, LinkLocksExclude
  <2> QED
    BY <2>1, <2>2
<1>3. RotatesALiveToken'
  <2> SUFFICES ASSUME NEW r \in Requests, Doing(r, "rotate")'
               PROVE  requests'[r].token \in Live'
    BY DEF RotatesALiveToken
  <2>1. requests'[r] = requests[r] /\ requests[r] # None /\ Doing(r, "rotate")
    BY DEF Doing
  <2>2. requests[r].token \in Live
    BY <2>1 DEF IInv, RotatesALiveToken
  <2>3. requests[r].token \in LockedBy(r)
    BY <2>1, <2>2 DEF LockedBy, Live, Issued
  <2>4. \A s \in Requests : requests[r].token \in LockedBy(s) => s = r
    BY <2>3 DEF IInv, TokenLocksExclude, LockedBy
  <2> QED
    BY <2>1, <2>2, <2>4
<1>4. \A r \in Requests : Doing(r, "claim")' \/ Doing(r, "reset")' =>
        /\ requests'[r] = requests[r]
        /\ requests[r].link \in Sent
        /\ links'[requests[r].link] # None
        /\ links'[requests[r].link].state = "open"
        /\ links'[requests[r].link].user = links[requests[r].link].user
  <2> SUFFICES ASSUME NEW r \in Requests, Doing(r, "claim")' \/ Doing(r, "reset")'
               PROVE  /\ requests'[r] = requests[r]
                      /\ requests[r].link \in Sent
                      /\ links'[requests[r].link] # None
                      /\ links'[requests[r].link].state = "open"
                      /\ links'[requests[r].link].user = links[requests[r].link].user
    OBVIOUS
  <2>1. /\ requests'[r] = requests[r] /\ requests[r] # None
        /\ Doing(r, "claim") \/ Doing(r, "reset")
    BY DEF Doing
  <2>2. requests[r].link \in Sent /\ links[requests[r].link].state = "open"
    BY <2>1 DEF IInv, ClaimsAnOpenLink
  <2>3. requests[r].link \in ClaimedBy(r)
    BY <2>1, <2>2 DEF ClaimedBy, Sent
  <2>4. \A s \in Requests : requests[r].link \in ClaimedBy(s) => s = r
    BY <2>3 DEF IInv, LinkLocksExclude, ClaimedBy
  <2>5. Claimed(requests[r].link)
    BY <2>3, LockedIsLockedBySome DEF ClaimedBy
  <2>6. links'[requests[r].link] # None
    BY <2>2 DEF Sent
  <2> QED
    BY <2>1, <2>2, <2>4, <2>5, <2>6
<1>5. ClaimsAnOpenLink'
  BY <1>4 DEF ClaimsAnOpenLink, Sent
<1>6. ResetHasThemAll'
  <2> SUFFICES ASSUME NEW r \in Requests, Doing(r, "reset")',
                      NEW t \in LiveOf(links[requests[r].link].user)'
               PROVE  t \in requests'[r].victims \cup requests'[r].held
    BY DEF ResetHasThemAll
  <2> DEFINE u == links[requests[r].link].user
  <2>1. /\ requests'[r] = requests[r] /\ Doing(r, "reset")
        /\ links'[requests'[r].link].user = u
    BY <1>4 DEF Doing
  <2>2. t \in Live' /\ tokens'[t].user = u
    BY <2>1 DEF LiveOf
  <2>3. Barred(u)
    BY <2>1 DEF Barred, Resetting
  <2>4. t \in LiveOf(u)
    BY <2>2, <2>3 DEF LiveOf
  <2> QED
    BY <2>1, <2>4 DEF IInv, ResetHasThemAll
<1>7. HoldsTokens'
  <2> SUFFICES ASSUME NEW r \in Requests, Revokes(r)'
               PROVE  /\ requests'[r].victims \subseteq Issued'
                      /\ requests'[r].held \subseteq Live'
    BY DEF HoldsTokens
  <2>1. requests'[r] = requests[r] /\ requests[r] # None /\ Revokes(r)
    BY DEF Revokes
  <2>2. requests[r].victims \subseteq Issued /\ requests[r].held \subseteq Live
    BY <2>1 DEF IInv, HoldsTokens
  <2>3. \A t \in requests[r].held : t \in Tokens /\ t \in LockedBy(r)
    BY <2>1, <2>2 DEF LockedBy, Live, Issued
  <2>4. \A t \in requests[r].held : \A s \in Requests : t \in LockedBy(s) => s = r
    BY <2>3 DEF IInv, TokenLocksExclude
  <2> QED
    BY <2>1, <2>2, <2>4
<1> QED
  BY <1>2, <1>3, <1>5, <1>6, <1>7

\* Tokens that only age, and stop being live, leave the families as they are.
LEMMA TokensAge ==
    ASSUME IInv, Issued' = Issued,
           \A t \in Issued : /\ tokens'[t].family = tokens[t].family
                             /\ tokens'[t].replaced_by = tokens[t].replaced_by
                             /\ tokens'[t].live => tokens[t].live
    PROVE  FamiliesAreNamed' /\ OneLiveTokenPerDevice' /\ RotationIsALine'
<1>1. FamiliesAreNamed'
  BY DEF IInv, FamiliesAreNamed
<1>2. OneLiveTokenPerDevice'
  BY DEF IInv, OneLiveTokenPerDevice, Live
<1>3. RotationIsALine'
  BY DEF IInv, RotationIsALine
<1> QED
  BY <1>1, <1>2, <1>3
-----------------------------------------------------------------------------
LEMMA InitHolds == Init => IInv
BY NoneAssumption
   DEF Init, IInv, TypeOK, FamiliesAreNamed, OneLiveTokenPerDevice, RotationIsALine,
       RotatesALiveToken, TokenLocksExclude, LinkLocksExclude, ClaimsAnOpenLink,
       ResetHasThemAll, HoldsTokens, LockedBy, ClaimedBy, Issued, Live, Doing, Revokes

\* A device signs in: a token of a family of its own.
LEMMA SignInHolds == ASSUME IInv, NEW u \in Users, SignIn(u) PROVE IInv'
<1> PICK n \in Tokens \ Issued : tokens' = [tokens EXCEPT ![n] = FirstToken(u, n)]
  BY DEF SignIn
<1> DEFINE row == FirstToken(u, n)
<1>1. row \in Token /\ row # None /\ row.family = n /\ row.user = u /\ row.replaced_by = None
  <2>1. row \in Token
    BY DEF FirstToken, Token
  <2>2. row # None
    BY <2>1, RowAssumption
  <2> QED
    BY <2>1, <2>2 DEF FirstToken
<1>2. tokens'[n] = row /\ \A t \in Tokens \ {n} : tokens'[t] = tokens[t]
  BY DEF IInv, TypeOK
<1> HIDE DEF row
<1>3. TypeOK'
  BY <1>1, <1>2 DEF IInv, TypeOK, SignIn, row
<1>4. Issued' = Issued \cup {n} /\ n \notin Issued
  BY <1>1, <1>2 DEF Issued
<1>5. FamiliesAreNamed'
  BY <1>1, <1>2, <1>4 DEF IInv, FamiliesAreNamed, Issued
<1>6. OneLiveTokenPerDevice'
  BY <1>1, <1>2, <1>4 DEF IInv, OneLiveTokenPerDevice, FamiliesAreNamed, Live, Issued
<1>7. RotationIsALine'
  BY <1>1, <1>2, <1>4, NoneAssumption DEF IInv, RotationIsALine, Issued
<1>8. \A t \in Live : t \in Live' /\ tokens'[t] = tokens[t]
  BY <1>2, <1>4 DEF Live
<1>9. \A t \in Live' : ~Barred(tokens'[t].user) \/ (t \in Live /\ tokens'[t].user = tokens[t].user)
  <2> SUFFICES ASSUME NEW t \in Live'
               PROVE  ~Barred(tokens'[t].user)
                        \/ (t \in Live /\ tokens'[t].user = tokens[t].user)
    OBVIOUS
  <2>1. CASE t = n
    <3>1. ~Barred(u) /\ tokens'[t].user = u
      BY <2>1, <1>1, <1>2 DEF SignIn
    <3> QED
      BY <3>1 DEF Barred
  <2>2. CASE t # n
    BY <2>2, <1>2, <1>4 DEF Live
  <2> QED
    BY <2>1, <2>2
<1>10. requests' = requests /\ links' = links
  BY DEF SignIn
<1>11. /\ TokenLocksExclude' /\ LinkLocksExclude' /\ HoldsTokens'
       /\ RotatesALiveToken' /\ ClaimsAnOpenLink' /\ ResetHasThemAll'
  BY <1>4, <1>8, <1>9, <1>10, RowsChange DEF Sent
<1> QED
  BY <1>3, <1>5, <1>6, <1>7, <1>11 DEF IInv

\* A token is exchanged: it was live, and its lock says that it still is.
LEMMA RotateHolds == ASSUME IInv, NEW r \in Requests, Rotate(r) PROVE IInv'
<1> DEFINE p == requests[r].token
           u == tokens[p].user
<1>0. PICK n \in Tokens \ Issued :
           tokens' = [tokens EXCEPT ![p] = Replaced(@, n), ![n] = Successor(p, n)]
  BY DEF Rotate
<1>1. p \in Live /\ p \in LockedBy(r) /\ ~Barred(u)
  BY DEF Rotate, IInv, RotatesALiveToken, LockedBy, Live, Issued
<1> DEFINE old == Replaced(tokens[p], n)
           new == Successor(p, n)
<1>2. /\ p \in Issued /\ tokens[p] \in Token /\ p # n /\ p \in Tokens
      /\ tokens[p].live /\ tokens[p].replaced_by = None
  <2>1. p \in Issued /\ p \in Tokens /\ p # n /\ tokens[p].live
    BY <1>0, <1>1 DEF Live, Issued
  <2>2. tokens[p] \in Token
    BY <2>1, RowParts DEF IInv
  <2>3. tokens[p].replaced_by = None
    BY <2>1 DEF IInv, RotationIsALine
  <2> QED
    BY <2>1, <2>2, <2>3
<1>n. n \in Tokens
  BY <1>0
<1>3. /\ old \in Token /\ old # None /\ ~old.live /\ old.replaced_by = n
      /\ old.family = tokens[p].family /\ old.user = u
  BY <1>2, <1>n, RowAssumption DEF Replaced, Token
<1>4. /\ new \in Token /\ new # None /\ new.live /\ new.replaced_by = None
      /\ new.family = tokens[p].family /\ new.user = u
  <2>1. tokens[p].user \in Users /\ tokens[p].family \in Tokens
    BY <1>2 DEF Token
  <2>2. new \in Token
    BY <2>1 DEF Successor, FirstToken, Token
  <2>3. new # None
    BY <2>2, RowAssumption
  <2> QED
    BY <2>2, <2>3 DEF Successor, FirstToken
<1>5. /\ tokens'[p] = old /\ tokens'[n] = new
      /\ \A s \in Tokens \ {p, n} : tokens'[s] = tokens[s]
  BY <1>0, <1>2 DEF IInv, TypeOK
<1>6. TypeOK'
  <2>1. tokens' \in [Tokens -> Token \cup {None}]
    BY <1>0, <1>2, <1>3, <1>4 DEF IInv, TypeOK
  <2> QED
    BY <2>1 DEF IInv, TypeOK, Rotate, Finish
<1> HIDE DEF old, new
<1>7. Issued' = Issued \cup {n} /\ n \notin Issued
  BY <1>0, <1>2, <1>3, <1>4, <1>5 DEF Issued
<1>8. Live' = (Live \ {p}) \cup {n}
  BY <1>2, <1>3, <1>4, <1>5, <1>7 DEF Live, Issued
<1>9. FamiliesAreNamed'
  <2>1. \A s \in Issued : tokens'[s].family = tokens[s].family
    BY <1>3, <1>5, <1>7 DEF Issued
  <2>2. \A s \in Issued : tokens[s].family \in Issued
    BY DEF IInv, FamiliesAreNamed
  <2>3. tokens'[n].family \in Issued
    BY <2>2, <1>2, <1>4, <1>5
  <2> QED
    BY <2>1, <2>2, <2>3, <1>7 DEF FamiliesAreNamed
<1>10. OneLiveTokenPerDevice'
  <2>1. \A s \in Live \ {p} : tokens'[s] = tokens[s] /\ tokens[s].family # tokens[p].family
    BY <1>1, <1>5, <1>7 DEF IInv, OneLiveTokenPerDevice, Live, Issued
  <2>2. \A s, q \in Live \ {p} : tokens'[s].family = tokens'[q].family => s = q
    BY <2>1 DEF IInv, OneLiveTokenPerDevice
  <2>3. tokens'[n].family = tokens[p].family
    BY <1>4, <1>5
  <2>4. \A s \in Live \ {p} : tokens'[s].family # tokens'[n].family
    BY <2>1, <2>3
  <2> QED
    BY <2>2, <2>4, <1>8 DEF OneLiveTokenPerDevice
<1>11. RotationIsALine'
  <2>1. \A s \in Issued \ {p} : tokens'[s] = tokens[s] /\ tokens[s].replaced_by # n
    BY <1>5, <1>7, NoneAssumption DEF IInv, RotationIsALine, Issued
  <2>2. \A s \in Issued : tokens'[s].family = tokens[s].family
    BY <2>1, <1>3, <1>5
  <2>3. \A s \in Issued \ {p} : tokens[s].replaced_by # None =>
          LET m == tokens[s].replaced_by
          IN /\ m \in Issued'
             /\ tokens'[m].family = tokens'[s].family
             /\ ~tokens'[s].live
             /\ \A q \in Issued' : tokens'[q].replaced_by = m => q = s
    <3> SUFFICES ASSUME NEW s \in Issued \ {p}, tokens[s].replaced_by # None
                 PROVE  LET m == tokens[s].replaced_by
                        IN /\ m \in Issued'
                           /\ tokens'[m].family = tokens'[s].family
                           /\ ~tokens'[s].live
                           /\ \A q \in Issued' : tokens'[q].replaced_by = m => q = s
      OBVIOUS
    <3> DEFINE m == tokens[s].replaced_by
    <3>1. /\ m \in Issued /\ tokens[m].family = tokens[s].family /\ ~tokens[s].live
          /\ \A q \in Issued : tokens[q].replaced_by = m => q = s
      BY DEF IInv, RotationIsALine
    <3>2. tokens'[p].replaced_by # m /\ tokens'[n].replaced_by # m
      BY <3>1, <1>3, <1>4, <1>5
    <3> QED
      BY <3>1, <3>2, <2>1, <2>2, <1>7
  <2>4. /\ n \in Issued' /\ tokens'[n].family = tokens'[p].family
        /\ ~tokens'[p].live
        /\ \A q \in Issued' : tokens'[q].replaced_by = n => q = p
    <3>1. tokens'[n].replaced_by # n
      BY <1>4, <1>5, NoneAssumption
    <3> QED
      BY <3>1, <2>1, <1>3, <1>4, <1>5, <1>7
  <2>5. tokens'[n].replaced_by = None /\ tokens'[p].replaced_by = n
    BY <1>3, <1>4, <1>5
  <2>6. \A s \in Issued' : tokens'[s].replaced_by # None =>
          /\ tokens'[s].replaced_by \in Issued'
          /\ tokens'[tokens'[s].replaced_by].family = tokens'[s].family
          /\ ~tokens'[s].live
          /\ \A q \in Issued' : tokens'[q].replaced_by = tokens'[s].replaced_by => q = s
    <3>1. \A s \in Issued \ {p} : tokens'[s].replaced_by = tokens[s].replaced_by
      BY <2>1
    <3> QED
      BY <3>1, <2>3, <2>4, <2>5, <1>7
  <2> QED
    BY <2>6 DEF RotationIsALine
<1>12. /\ requests'[r] = None /\ links' = links
       /\ \A s \in Requests \ {r} : requests'[s] = requests[s]
  BY DEF Rotate, Finish, IInv, TypeOK
<1>13. \A s \in Live' : \/ ~Barred(tokens'[s].user)
                        \/ s \in Live /\ tokens'[s].user = tokens[s].user
  <2>1. \A s \in Live \ {p} : tokens'[s] = tokens[s]
    BY <1>5, <1>7 DEF Live, Issued
  <2>2. ~Barred(tokens'[n].user)
    BY <1>1, <1>4, <1>5
  <2> QED
    BY <2>1, <2>2, <1>8
<1>14. \A s \in Live : \/ s \in Live'
                       \/ \E q \in Requests : requests'[q] = None /\ s \in LockedBy(q)
  BY <1>1, <1>8, <1>12
<1>15. /\ TokenLocksExclude' /\ LinkLocksExclude' /\ HoldsTokens'
       /\ RotatesALiveToken' /\ ClaimsAnOpenLink' /\ ResetHasThemAll'
  BY <1>7, <1>12, <1>13, <1>14, RowsChange DEF Sent
<1> QED
  BY <1>6, <1>9, <1>10, <1>11, <1>15 DEF IInv
-----------------------------------------------------------------------------
\* What a revocation changes: the tokens it holds stop being live.
LEMMA RevokeParts ==
    ASSUME IInv, NEW r \in Requests, Revokes(r), Revoke(r)
    PROVE  /\ tokens' \in [Tokens -> Token \cup {None}]
           /\ requests' \in [Requests -> Request \cup {None}]
           /\ Issued' = Issued
           /\ \A t \in Issued :
                /\ tokens'[t].user = tokens[t].user
                /\ tokens'[t].family = tokens[t].family
                /\ tokens'[t].replaced_by = tokens[t].replaced_by
                /\ tokens'[t].live <=> tokens[t].live /\ t \notin requests[r].held
           /\ requests'[r] = None
           /\ \A s \in Requests \ {r} : requests'[s] = requests[s]
           /\ \A t \in Live : t \in Live' \/ t \in LockedBy(r)
           /\ Live' \subseteq Live
<1> DEFINE revoked(t) == [tokens[t] EXCEPT !.live = FALSE]
<1>1. \A t \in Tokens : tokens'[t] = IF t \in requests[r].held THEN revoked(t) ELSE tokens[t]
  BY DEF Revoke
<1>2. requests' = [requests EXCEPT ![r] = None]
  BY DEF Revoke, Finish
<1>3. \A t \in Issued : t \in Tokens /\ tokens[t] \in Token /\ tokens[t] # None
  BY RowParts DEF IInv, Issued
<1>4. \A t \in Issued : /\ revoked(t) \in Token
                        /\ revoked(t).user = tokens[t].user
                        /\ revoked(t).family = tokens[t].family
                        /\ revoked(t).replaced_by = tokens[t].replaced_by
                        /\ revoked(t).live = FALSE
  BY <1>3 DEF Token
<1>5. \A t \in Issued : revoked(t) # None
  BY <1>4, RowAssumption
<1> HIDE DEF revoked
<1>6. requests[r].held \subseteq Issued
  BY DEF IInv, HoldsTokens, Live
<1>7. Issued' = Issued
  BY <1>1, <1>5, <1>6 DEF Issued
<1>8. \A t \in Issued :
        /\ tokens'[t].user = tokens[t].user
        /\ tokens'[t].family = tokens[t].family
        /\ tokens'[t].replaced_by = tokens[t].replaced_by
        /\ tokens'[t].live <=> tokens[t].live /\ t \notin requests[r].held
  BY <1>1, <1>3, <1>4
<1>9. tokens' \in [Tokens -> Token \cup {None}]
  <2>1. \A t \in Tokens : tokens'[t] \in Token \cup {None}
    BY <1>1, <1>4, <1>6 DEF IInv, TypeOK
  <2>2. tokens' = [t \in Tokens |-> IF t \in requests[r].held THEN revoked(t) ELSE tokens[t]]
    BY DEF Revoke, revoked
  <2> QED
    BY <2>1, <2>2
<1>10. /\ requests' \in [Requests -> Request \cup {None}]
       /\ requests'[r] = None
       /\ \A s \in Requests \ {r} : requests'[s] = requests[s]
  BY <1>2 DEF IInv, TypeOK
<1>11. Live' \subseteq Live
  BY <1>7, <1>8 DEF Live
<1>12. \A t \in Live : t \in Live' \/ t \in LockedBy(r)
  <2> SUFFICES ASSUME NEW t \in Live PROVE t \in Live' \/ t \in LockedBy(r)
    OBVIOUS
  <2>1. t \in Issued /\ tokens[t].live /\ t \in Tokens
    BY DEF Live, Issued
  <2>2. CASE t \in requests[r].held
    BY <2>1, <2>2 DEF LockedBy
  <2>3. CASE t \notin requests[r].held
    BY <2>1, <2>3, <1>7, <1>8 DEF Live
  <2> QED
    BY <2>2, <2>3
<1> QED
  BY <1>7, <1>8, <1>9, <1>10, <1>11, <1>12

\* A revocation keeps the invariant, whatever it does to the link it holds.
LEMMA RevokeHolds ==
    ASSUME IInv, NEW r \in Requests, Revokes(r), Revoke(r),
           links' \in [Links -> Link \cup {None}],
           \A l \in Sent : /\ l \in Sent'
                           /\ links'[l].user = links[l].user
                           /\ links'[l].state = links[l].state \/ l \in ClaimedBy(r)
    PROVE  IInv'
<1>1. TypeOK'
  BY RevokeParts DEF TypeOK
<1>2. FamiliesAreNamed' /\ OneLiveTokenPerDevice' /\ RotationIsALine'
  BY RevokeParts, TokensAge
<1>3. \A t \in Live' : t \in Live /\ tokens'[t].user = tokens[t].user
  BY RevokeParts DEF Live
<1>4. \A s \in Requests : requests'[s] = requests[s] \/ requests'[s] = None
  BY RevokeParts
<1>5. requests'[r] = None
  BY RevokeParts
<1>6. Issued \subseteq Issued'
  BY RevokeParts
<1>7. \A t \in Live : \/ t \in Live'
                      \/ \E s \in Requests : requests'[s] = None /\ t \in LockedBy(s)
  BY <1>5, RevokeParts
<1>8. /\ TokenLocksExclude' /\ LinkLocksExclude' /\ HoldsTokens'
      /\ RotatesALiveToken' /\ ClaimsAnOpenLink' /\ ResetHasThemAll'
  BY <1>3, <1>4, <1>5, <1>6, <1>7, RowsChange
<1> QED
  BY <1>1, <1>2, <1>8 DEF IInv
-----------------------------------------------------------------------------
LEMMA EndHolds ==
    ASSUME IInv, NEW r \in Requests, EndSession(r) \/ EndReset(r) \/ EndChange(r)
    PROVE  IInv'
<1>1. CASE EndSession(r) \/ EndChange(r)
  <2>1. Revokes(r) /\ Revoke(r) /\ links' = links
    BY <1>1 DEF EndSession, EndChange, Doing, Revokes, Revoking
  <2>2. links' \in [Links -> Link \cup {None}]
    BY <2>1 DEF IInv, TypeOK
  <2> QED
    BY <2>1, <2>2, RevokeHolds DEF Sent
<1>2. CASE EndReset(r)
  <2> DEFINE c == requests[r].link
             row == [links[c] EXCEPT !.state = "used", !.by = r]
  <2>1. Revokes(r) /\ Revoke(r) /\ Doing(r, "reset") /\ requests[r] # None
    BY <1>2 DEF EndReset, Doing, Revokes, Revoking
  <2>2. c \in Sent /\ c \in Links /\ links[c] \in Link
    BY <2>1, RowParts DEF IInv, ClaimsAnOpenLink, Sent
  <2>3. row \in Link /\ row.user = links[c].user
    BY <2>2 DEF Link
  <2>4. row # None
    BY <2>3, RowAssumption
  <2>5. links' = [links EXCEPT ![c] = row]
    BY <1>2, <2>2 DEF EndReset, IInv, TypeOK
  <2>6. links'[c] = row /\ \A l \in Links \ {c} : links'[l] = links[l]
    BY <2>2, <2>5 DEF IInv, TypeOK
  <2>7. links' \in [Links -> Link \cup {None}]
    BY <2>3, <2>5 DEF IInv, TypeOK
  <2>8. c \in ClaimedBy(r)
    BY <2>1, <2>2 DEF ClaimedBy
  <2> HIDE DEF row
  <2>9. \A l \in Sent : /\ l \in Sent'
                        /\ links'[l].user = links[l].user
                        /\ links'[l].state = links[l].state \/ l \in ClaimedBy(r)
    BY <2>3, <2>4, <2>6, <2>8 DEF Sent
  <2> QED
    BY <2>1, <2>7, <2>9, RevokeHolds
<1> QED
  BY <1>1, <1>2

\* Time passes over a token or a link.
LEMMA ExpiryHolds ==
    ASSUME IInv, \/ \E t \in Tokens : TokenExpires(t)
                 \/ \E l \in Links : LinkExpires(l)
    PROVE  IInv'
<1>1. CASE \E t \in Tokens : TokenExpires(t)
  <2> PICK q \in Tokens : TokenExpires(q)
    BY <1>1
  <2> DEFINE row == [tokens[q] EXCEPT !.expired = TRUE]
  <2>1. q \in Issued /\ tokens[q] \in Token
    BY RowParts DEF IInv, TokenExpires
  <2>2. /\ row \in Token
        /\ row.user = tokens[q].user /\ row.family = tokens[q].family
        /\ row.replaced_by = tokens[q].replaced_by /\ row.live = tokens[q].live
    BY <2>1 DEF Token
  <2>3. row # None
    BY <2>2, RowAssumption
  <2>4. tokens' = [tokens EXCEPT ![q] = row] /\ requests' = requests /\ links' = links
    BY DEF TokenExpires
  <2>5. tokens'[q] = row /\ \A t \in Tokens \ {q} : tokens'[t] = tokens[t]
    BY <2>4 DEF IInv, TypeOK
  <2>6. TypeOK'
    BY <2>2, <2>4 DEF IInv, TypeOK
  <2> HIDE DEF row
  <2>7. Issued' = Issued
    BY <2>1, <2>3, <2>5 DEF Issued
  <2>8. \A t \in Issued : /\ tokens'[t].family = tokens[t].family
                          /\ tokens'[t].replaced_by = tokens[t].replaced_by
                          /\ tokens'[t].live = tokens[t].live
                          /\ tokens'[t].user = tokens[t].user
    BY <2>2, <2>5 DEF Issued
  <2>9. FamiliesAreNamed' /\ OneLiveTokenPerDevice' /\ RotationIsALine'
    BY <2>7, <2>8, TokensAge
  <2>10. Live' = Live /\ \A t \in Live : tokens'[t].user = tokens[t].user
    BY <2>7, <2>8 DEF Live
  <2>11. /\ TokenLocksExclude' /\ LinkLocksExclude' /\ HoldsTokens'
         /\ RotatesALiveToken' /\ ClaimsAnOpenLink' /\ ResetHasThemAll'
    BY <2>4, <2>7, <2>10, RowsChange DEF Sent
  <2> QED
    BY <2>6, <2>9, <2>11 DEF IInv
<1>2. CASE \E l \in Links : LinkExpires(l)
  <2> PICK q \in Links : LinkExpires(q)
    BY <1>2
  <2> DEFINE row == [links[q] EXCEPT !.expired = TRUE]
  <2>1. q \in Sent /\ links[q] \in Link
    BY RowParts DEF IInv, LinkExpires
  <2>2. row \in Link /\ row.user = links[q].user /\ row.state = links[q].state
    BY <2>1 DEF Link
  <2>3. row # None
    BY <2>2, RowAssumption
  <2>4. links' = [links EXCEPT ![q] = row] /\ requests' = requests /\ tokens' = tokens
    BY DEF LinkExpires
  <2>5. links'[q] = row /\ \A l \in Links \ {q} : links'[l] = links[l]
    BY <2>4 DEF IInv, TypeOK
  <2>6. TypeOK'
    BY <2>2, <2>4 DEF IInv, TypeOK
  <2> HIDE DEF row
  <2>7. \A l \in Sent : /\ l \in Sent'
                        /\ links'[l].user = links[l].user
                        /\ links'[l].state = links[l].state
    BY <2>2, <2>3, <2>5 DEF Sent
  <2>8. Issued' = Issued /\ Live' = Live
    BY <2>4 DEF Issued, Live
  <2>9. FamiliesAreNamed' /\ OneLiveTokenPerDevice' /\ RotationIsALine'
    BY <2>4, <2>8, TokensAge
  <2>10. /\ TokenLocksExclude' /\ LinkLocksExclude' /\ HoldsTokens'
         /\ RotatesALiveToken' /\ ClaimsAnOpenLink' /\ ResetHasThemAll'
    BY <2>4, <2>7, <2>8, RowsChange
  <2> QED
    BY <2>6, <2>9, <2>10 DEF IInv
<1> QED
  BY <1>1, <1>2

\* A link is sent, and those it supersedes are claimed by nobody.
LEMMA SendLinkParts ==
    ASSUME IInv, NEW r \in Requests, SendLink(r)
    PROVE  /\ links' \in [Links -> Link \cup {None}]
           /\ \A l \in Sent : /\ l \in Sent'
                              /\ links'[l].user = links[l].user
                              /\ links'[l].by = links[l].by
                              /\ \/ links'[l].state = links[l].state
                                 \/ ~Claimed(l) /\ links[l].state = "open"
<1> DEFINE u == requests[r].user
           found == requests[r].found
           fresh == [user |-> u, state |-> "open", expired |-> FALSE, by |-> None]
           superseded(l) == [links[l] EXCEPT !.state = "superseded"]
<1>0. PICK new \in Links \ Sent :
          links' = [l \in Links |->
              CASE l = new -> fresh
                [] l \in found \cap OpenLinks(u) -> superseded(l)
                [] OTHER -> links[l]]
  BY DEF SendLink
<1>1. u \in Users /\ found \subseteq Links /\ \A l \in found : ~Claimed(l)
  BY RequestParts DEF SendLink, IInv, Doing
<1>2. fresh \in Link
  BY <1>1 DEF Link
<1>3. fresh # None
  BY <1>2, RowAssumption
<1>4. \A l \in Sent : links[l] \in Link /\ l \in Links /\ l # new
  BY <1>0, RowParts DEF IInv, Sent
<1>5. \A l \in Sent : /\ superseded(l) \in Link
                      /\ superseded(l).user = links[l].user
                      /\ superseded(l).by = links[l].by
  BY <1>4 DEF Link
<1>6. \A l \in Sent : superseded(l) # None
  BY <1>5, RowAssumption
<1>7. \A l \in Links \ {new} :
        \/ links'[l] = links[l]
        \/ links'[l] = superseded(l) /\ l \in found /\ l \in Sent /\ links[l].state = "open"
  BY <1>0 DEF OpenLinks
<1>8. links'[new] = fresh /\ new \in Links
  <2>1. new \in Links /\ new \notin OpenLinks(u)
    BY <1>0 DEF OpenLinks
  <2> QED
    BY <1>0, <2>1
<1> HIDE DEF superseded, fresh
<1>10. \A l \in Links : links'[l] \in Link \cup {None}
  <2>1. \A l \in Links : links[l] \in Link \cup {None}
    BY DEF IInv, TypeOK
  <2> QED
    BY <2>1, <1>2, <1>5, <1>7, <1>8
<1>11. links' \in [Links -> Link \cup {None}]
  BY <1>0, <1>10
<1>12. \A l \in Sent : l \in Sent'
  <2>1. \A l \in Sent : l \in Links /\ links'[l] # None
    BY <1>4, <1>6, <1>7 DEF Sent
  <2> QED
    BY <2>1 DEF Sent
<1>13. \A l \in Sent : /\ links'[l].user = links[l].user
                       /\ links'[l].by = links[l].by
                       /\ \/ links'[l].state = links[l].state
                          \/ ~Claimed(l) /\ links[l].state = "open"
  BY <1>1, <1>4, <1>5, <1>7
<1> QED
  BY <1>11, <1>12, <1>13

LEMMA SendLinkHolds ==
    ASSUME IInv, NEW r \in Requests, SendLink(r) PROVE IInv'
<1>1. /\ tokens' = tokens
      /\ requests' = [requests EXCEPT ![r] = None]
  BY DEF SendLink, Finish
<1>2. \A s \in Requests : requests'[s] = requests[s] \/ requests'[s] = None
  BY <1>1 DEF IInv, TypeOK
<1>3. TypeOK'
  BY <1>1, SendLinkParts DEF IInv, TypeOK
<1>4. Issued' = Issued /\ Live' = Live
  BY <1>1 DEF Issued, Live
<1>5. FamiliesAreNamed' /\ OneLiveTokenPerDevice' /\ RotationIsALine'
  BY <1>1, <1>4, TokensAge
<1>6. \A l \in Sent : /\ l \in Sent'
                      /\ links'[l].user = links[l].user
                      /\ links'[l].state = links[l].state \/ ~Claimed(l)
  BY SendLinkParts
<1>7. /\ TokenLocksExclude' /\ LinkLocksExclude' /\ HoldsTokens'
      /\ RotatesALiveToken' /\ ClaimsAnOpenLink' /\ ResetHasThemAll'
  BY <1>1, <1>2, <1>4, <1>6, RowsChange
<1> QED
  BY <1>3, <1>5, <1>7 DEF IInv
-----------------------------------------------------------------------------
\* A request takes locks only where Locked and Claimed leave it free to.
LEMMA StartRefreshHolds ==
    ASSUME IInv, NEW r \in Requests, NEW t \in Tokens, StartRefresh(r, t) PROVE IInv'
<1>1. t \in Issued /\ ~Locked(t) /\ requests[r] = None
  BY DEF StartRefresh, Idle
<1>2. CASE /\ tokens[t].live
           /\ requests' = [requests EXCEPT ![r] = [op |-> "rotate", token |-> t]]
  <2> DEFINE x == [op |-> "rotate", token |-> t]
  <2>1. x \in Request
    BY DEF Request
  <2>2. requests'[r] = x
    BY <1>2 DEF IInv, TypeOK
  <2>3. /\ \A s \in Tokens : s \in LockedBy(r)' => s = t
        /\ \A l \in Links : l \notin ClaimedBy(r)'
    BY <2>2 DEF LockedBy, ClaimedBy, Doing, Revokes, Revoking
  <2>4. x.op = "rotate" /\ x.token = t /\ t \in Live
    BY <1>1, <1>2 DEF Live
  <2>5. UNCHANGED <<tokens, links>>
    BY DEF StartRefresh
  <2>6. requests' = [requests EXCEPT ![r] = x]
    BY <1>2
  <2> HIDE DEF x
  <2> QED
    BY <1>1, <2>1, <2>3, <2>4, <2>5, <2>6, RequestsChange DEF Revoking
<1>3. CASE requests' = [requests EXCEPT ![r] =
               [op |-> "reuse", token |-> t, victims |-> FamilyOf(t) \cap Live, held |-> {}]]
  <2> DEFINE x == [op |-> "reuse", token |-> t, victims |-> FamilyOf(t) \cap Live,
                   held |-> {}]
  <2>1. FamilyOf(t) \cap Live \subseteq Tokens /\ FamilyOf(t) \cap Live \subseteq Issued
    BY DEF FamilyOf, Issued
  <2>2. x \in Request
    BY <2>1 DEF Request
  <2>3. requests'[r] = x
    BY <1>3 DEF IInv, TypeOK
  <2>4. /\ \A s \in Tokens : s \in LockedBy(r)' => s = t
        /\ \A l \in Links : l \notin ClaimedBy(r)'
    BY <2>3 DEF LockedBy, ClaimedBy, Doing, Revokes, Revoking
  <2>5. x.op = "reuse" /\ x.held = {} /\ x.victims \subseteq Issued
    BY <2>1
  <2>6. UNCHANGED <<tokens, links>>
    BY DEF StartRefresh
  <2>7. requests' = [requests EXCEPT ![r] = x]
    BY <1>3
  <2> HIDE DEF x
  <2> QED
    BY <1>1, <2>2, <2>4, <2>5, <2>6, <2>7, RequestsChange DEF Revoking
<1> QED
  BY <1>2, <1>3 DEF StartRefresh

LEMMA LogoutHolds ==
    ASSUME IInv, NEW r \in Requests, NEW t \in Tokens, Logout(r, t) PROVE IInv'
<1> DEFINE x == [op |-> "logout", token |-> t, victims |-> FamilyOf(t) \cap Live,
                 held |-> {}]
<1>1. requests' = [requests EXCEPT ![r] = x] /\ UNCHANGED <<tokens, links>>
  BY DEF Logout
<1>2. FamilyOf(t) \cap Live \subseteq Tokens /\ FamilyOf(t) \cap Live \subseteq Issued
  BY DEF FamilyOf, Issued
<1>3. x \in Request
  BY <1>2 DEF Request
<1>4. requests'[r] = x
  BY <1>1 DEF IInv, TypeOK
<1>5. /\ \A s \in Tokens : s \notin LockedBy(r)'
      /\ \A l \in Links : l \notin ClaimedBy(r)'
  BY <1>4 DEF LockedBy, ClaimedBy, Doing, Revokes, Revoking
<1>6. x.op = "logout" /\ x.held = {} /\ x.victims \subseteq Issued
  BY <1>2
<1> HIDE DEF x
<1> QED
  BY <1>1, <1>3, <1>5, <1>6, RequestsChange DEF Revoking

LEMMA StartChangeHolds ==
    ASSUME IInv, NEW r \in Requests, NEW u \in Users, NEW keeping \in Tokens \cup {None},
           StartChange(r, u, keeping)
    PROVE  IInv'
<1> DEFINE victims == LiveOf(u) \ {keeping}
           families == {tokens[t].family : t \in victims}
           x == [op |-> "change", user |-> u, families |-> families, victims |-> victims,
                 held |-> {}]
<1>1. requests' = [requests EXCEPT ![r] = x] /\ UNCHANGED <<tokens, links>>
  BY DEF StartChange
<1>2. victims \subseteq Issued /\ victims \subseteq Tokens
  BY DEF LiveOf, Live, Issued
<1>3. families \subseteq Tokens
  <2>1. \A t \in victims : tokens[t].family \in Tokens
    BY <1>2 DEF IInv, FamiliesAreNamed, Issued
  <2> QED
    BY <2>1
<1>4. x \in Request
  BY <1>2, <1>3 DEF Request
<1>5. requests'[r] = x
  BY <1>1 DEF IInv, TypeOK
<1>6. x.op = "change" /\ x.held = {} /\ x.victims \subseteq Issued
  BY <1>2
<1> HIDE DEF x
<1>7. /\ \A s \in Tokens : s \notin LockedBy(r)'
      /\ \A l \in Links : l \notin ClaimedBy(r)'
  BY <1>5, <1>6 DEF LockedBy, ClaimedBy, Doing, Revokes, Revoking
<1> QED
  BY <1>1, <1>4, <1>6, <1>7, RequestsChange DEF Revoking

LEMMA ClaimLinkHolds ==
    ASSUME IInv, NEW r \in Requests, NEW l \in Links, ClaimLink(r, l) PROVE IInv'
<1> DEFINE x == [op |-> "claim", link |-> l]
<1>1. /\ requests' = [requests EXCEPT ![r] = x] /\ UNCHANGED <<tokens, links>>
      /\ l \in Sent /\ ~Claimed(l) /\ links[l].state = "open"
  BY DEF ClaimLink
<1>2. x \in Request
  BY DEF Request
<1>3. requests'[r] = x
  BY <1>1 DEF IInv, TypeOK
<1>4. x.op = "claim" /\ x.link = l
  OBVIOUS
<1> HIDE DEF x
<1>5. /\ \A s \in Tokens : s \notin LockedBy(r)'
      /\ \A k \in Links : k \in ClaimedBy(r)' => k = l
  BY <1>3, <1>4 DEF LockedBy, ClaimedBy, Doing, Revokes, Revoking
<1> QED
  BY <1>1, <1>2, <1>4, <1>5, RequestsChange DEF Revoking

LEMMA AskLinkHolds ==
    ASSUME IInv, NEW r \in Requests, NEW u \in Users, AskLink(r, u) PROVE IInv'
<1> DEFINE x == [op |-> "ask", user |-> u, found |-> OpenLinks(u)]
<1>1. requests' = [requests EXCEPT ![r] = x] /\ UNCHANGED <<tokens, links>>
  BY DEF AskLink
<1>2. OpenLinks(u) \subseteq Links
  BY DEF OpenLinks, Sent
<1>3. x \in Request
  BY <1>2 DEF Request
<1>4. requests'[r] = x
  BY <1>1 DEF IInv, TypeOK
<1>5. x.op = "ask"
  OBVIOUS
<1> HIDE DEF x
<1>6. /\ \A s \in Tokens : s \notin LockedBy(r)'
      /\ \A l \in Links : l \notin ClaimedBy(r)'
  BY <1>4, <1>5 DEF LockedBy, ClaimedBy, Doing, Revokes, Revoking
<1> QED
  BY <1>1, <1>3, <1>5, <1>6, RequestsChange DEF Revoking

\* The reset finds every live token of its user when its UPDATE starts.
LEMMA StartResetHolds ==
    ASSUME IInv, NEW r \in Requests, StartReset(r) PROVE IInv'
<1> DEFINE l == requests[r].link
           found == LiveOf(links[l].user)
           x == [op |-> "reset", link |-> l, victims |-> found, held |-> {}]
<1>1. /\ requests' = [requests EXCEPT ![r] = x] /\ UNCHANGED <<tokens, links>>
      /\ Doing(r, "claim")
  BY DEF StartReset
<1>2. l \in Sent /\ links[l].state = "open" /\ l \in Links /\ l \in ClaimedBy(r)
  BY <1>1 DEF IInv, ClaimsAnOpenLink, ClaimedBy, Sent
<1>3. found \subseteq Tokens /\ found \subseteq Issued
  BY DEF LiveOf, Live, Issued
<1>4. x \in Request
  BY <1>2, <1>3 DEF Request
<1>5. requests'[r] = x
  BY <1>1 DEF IInv, TypeOK
<1>6. x.op = "reset" /\ x.link = l /\ x.victims = found /\ x.held = {}
  OBVIOUS
<1> HIDE DEF x
<1>7. /\ \A s \in Tokens : s \notin LockedBy(r)'
      /\ \A k \in Links : k \in ClaimedBy(r)' => k = l
  BY <1>5, <1>6 DEF LockedBy, ClaimedBy, Doing, Revokes, Revoking
<1> QED
  BY <1>1, <1>2, <1>3, <1>4, <1>6, <1>7, RequestsChange DEF Revoking

\* The revocation comes to a row that is free, and holds it from then on.
LEMMA RevokeNextHolds ==
    ASSUME IInv, NEW r \in Requests, NEW t \in Tokens, RevokeNext(r, t) PROVE IInv'
<1> DEFINE old == requests[r]
           kept == old.victims \ {t}
           taken == IF t \in Live THEN old.held \cup {t} ELSE old.held
           x == [old EXCEPT !.victims = kept, !.held = taken]
<1>1. /\ requests' = [requests EXCEPT ![r] = x] /\ UNCHANGED <<tokens, links>>
      /\ Revokes(r) /\ old # None /\ t \in old.victims /\ ~Locked(t)
  BY DEF RevokeNext, Revokes, IInv, TypeOK
<1>2. /\ old \in Request /\ old.op \in Revoking
      /\ old.victims \subseteq Tokens /\ old.held \subseteq Tokens
  BY <1>1, RequestParts DEF IInv, Revokes
<1>3. kept \subseteq Tokens /\ taken \subseteq Tokens
  BY <1>2
<1>4. x \in Request
  BY <1>2, <1>3 DEF Request, Revoking
<1>5. requests'[r] = x
  BY <1>1 DEF IInv, TypeOK
<1>6. /\ x.op = old.op /\ x.victims = kept /\ x.held = taken
      /\ old.op = "reuse" => x.token = old.token
      /\ old.op = "reset" => x.link = old.link
  BY <1>2 DEF Request, Revoking
<1>7. x # None
  BY <1>4, RowAssumption
<1> HIDE DEF x
<1>8. \A s \in Tokens : s \in LockedBy(r)' => s \in LockedBy(r) \/ s = t
  BY <1>1, <1>2, <1>5, <1>6, <1>7 DEF LockedBy, Doing, Revokes, Revoking
<1>9. \A l \in Links : l \in ClaimedBy(r)' => l \in ClaimedBy(r)
  BY <1>1, <1>2, <1>5, <1>6, <1>7 DEF ClaimedBy, Doing, Revoking
<1>10. taken \subseteq Live /\ kept \subseteq Issued
  BY <1>1 DEF IInv, HoldsTokens, Live
<1>11. old.op = "reset" =>
         /\ old.link \in Sent /\ links[old.link].state = "open"
         /\ LiveOf(links[old.link].user) \subseteq kept \cup taken
  <2> SUFFICES ASSUME old.op = "reset"
               PROVE  /\ old.link \in Sent /\ links[old.link].state = "open"
                      /\ LiveOf(links[old.link].user) \subseteq kept \cup taken
    OBVIOUS
  <2>1. Doing(r, "reset")
    BY <1>1 DEF Doing
  <2>2. old.link \in Sent /\ links[old.link].state = "open"
    BY <2>1 DEF IInv, ClaimsAnOpenLink
  <2>3. LiveOf(links[old.link].user) \subseteq old.victims \cup old.held
    BY <2>1 DEF IInv, ResetHasThemAll
  <2>4. LiveOf(links[old.link].user) \subseteq Live
    BY DEF LiveOf
  <2> QED
    BY <2>2, <2>3, <2>4
<1>12. x.op # "rotate" /\ x.op # "claim"
  BY <1>2, <1>6 DEF Revoking
<1> HIDE DEF old, kept, taken
<1> QED
  BY <1>1, <1>4, <1>6, <1>7, <1>8, <1>9, <1>10, <1>11, <1>12, RequestsChange

LEMMA FailHolds ==
    ASSUME IInv, NEW r \in Requests, Fail(r) PROVE IInv'
<1>1. requests' = [requests EXCEPT ![r] = None] /\ UNCHANGED <<tokens, links>>
  BY DEF Fail, Finish
<1>2. requests'[r] = None
  BY <1>1 DEF IInv, TypeOK
<1>3. /\ \A t \in Tokens : t \notin LockedBy(r)'
      /\ \A l \in Links : l \notin ClaimedBy(r)'
  BY <1>2 DEF LockedBy, ClaimedBy, Doing, Revokes
<1> QED
  BY <1>1, <1>3, RequestsChange
-----------------------------------------------------------------------------
\* Every step keeps the invariant.
LEMMA StepHolds == IInv /\ [Next]_vars => IInv'
<1> SUFFICES ASSUME IInv, [Next]_vars PROVE IInv'
  OBVIOUS
<1>1. ASSUME NEW u \in Users, SignIn(u) PROVE IInv'
  BY <1>1, SignInHolds
<1>2. ASSUME NEW r \in Requests, Start(r) PROVE IInv'
  BY <1>2, StartRefreshHolds, LogoutHolds, ClaimLinkHolds, StartChangeHolds, AskLinkHolds
     DEF Start
<1>3. ASSUME NEW r \in Requests, Continue(r) PROVE IInv'
  BY <1>3, RotateHolds, StartResetHolds, RevokeNextHolds, EndHolds, SendLinkHolds, FailHolds
     DEF Continue
<1>4. CASE \/ \E t \in Tokens : TokenExpires(t)
           \/ \E l \in Links : LinkExpires(l)
  BY <1>4, ExpiryHolds
<1>5. CASE UNCHANGED vars
  BY <1>5 DEF vars, IInv, TypeOK, FamiliesAreNamed, OneLiveTokenPerDevice,
     RotationIsALine, RotatesALiveToken, HoldsTokens, TokenLocksExclude, LinkLocksExclude,
     ClaimsAnOpenLink, ResetHasThemAll, LiveOf, LockedBy, ClaimedBy, Live, Issued, Sent,
     Doing, Revokes
<1> QED
  BY <1>1, <1>2, <1>3, <1>4, <1>5 DEF Next

\* The inductive invariant holds throughout.
LEMMA Invariance == Spec => []IInv
BY InitHolds, StepHolds, PTL DEF Spec

\* Rows and requests keep their types (the columns of refresh_tokens and
\* password_resets, and what a handler carries from one statement to the next).
THEOREM SessionTypes == Spec => []TypeOK
<1>1. IInv => TypeOK
  BY DEF IInv
<1> QED
  BY <1>1, Invariance, PTL

\* However many refreshes present a token at once, its device has one live token
\* (the FOR UPDATE OF rt of POST /refresh).
THEOREM OneLiveToken == Spec => []OneLiveTokenPerDevice
<1>1. IInv => OneLiveTokenPerDevice
  BY DEF IInv
<1> QED
  BY <1>1, Invariance, PTL

\* replaced_by links the tokens of a device in one line, without a fork.
THEOREM LineOfTokens == Spec => []RotationIsALine
<1>1. IInv => RotationIsALine
  BY DEF IInv
<1> QED
  BY <1>1, Invariance, PTL

\* No token of the user is live when a reset of the password commits: the lock on the
\* user's row keeps out the ones the UPDATE would not see.
THEOREM ResetEndsSessions == Spec => NothingSurvivesAReset
<1>1. ASSUME IInv
      PROVE  \A r \in Requests : EndReset(r) =>
               \A t \in Issued' : tokens'[t].user = links[requests[r].link].user
                                    => ~tokens'[t].live
  <2> SUFFICES ASSUME NEW r \in Requests, EndReset(r), NEW t \in Issued',
                      tokens'[t].user = links[requests[r].link].user
               PROVE  ~tokens'[t].live
    OBVIOUS
  <2>1. /\ Revokes(r) /\ Revoke(r) /\ Doing(r, "reset")
        /\ requests[r].victims = {}
    BY DEF EndReset, Revoke, Doing, Revokes, Revoking
  <2>2. /\ t \in Issued /\ tokens'[t].user = tokens[t].user
        /\ tokens'[t].live <=> tokens[t].live /\ t \notin requests[r].held
    BY <1>1, <2>1, RevokeParts
  <2>3. t \in Live => t \in LiveOf(links[requests[r].link].user)
    BY <2>2 DEF LiveOf
  <2>4. t \in Live => t \in requests[r].held
    BY <1>1, <2>1, <2>3 DEF IInv, ResetHasThemAll
  <2> QED
    BY <2>2, <2>4 DEF Live
<1> QED
  BY <1>1, Invariance, PTL DEF NothingSurvivesAReset

\* A link that is spent stays as it is: used once, by one request, or superseded.
THEOREM SpentLinks == Spec => LinksAreSpent
<1>1. ASSUME IInv, Next
      PROVE  \A l \in Sent : links[l].state # "open" =>
               links'[l].state = links[l].state /\ links'[l].by = links[l].by
  <2> SUFFICES ASSUME NEW l \in Sent, links[l].state # "open"
               PROVE  links'[l].state = links[l].state /\ links'[l].by = links[l].by
    OBVIOUS
  <2>1. l \in Links /\ links[l] \in Link
    BY <1>1, RowParts DEF IInv, Sent
  <2>2. ASSUME NEW r \in Requests, EndReset(r)
        PROVE  links'[l] = links[l]
    <3>1. Doing(r, "reset")
      BY <2>2 DEF EndReset
    <3>2. requests[r].link # l
      BY <1>1, <3>1 DEF IInv, ClaimsAnOpenLink
    <3> QED
      BY <1>1, <2>1, <2>2, <3>2 DEF EndReset, IInv, TypeOK
  <2>3. ASSUME NEW r \in Requests, SendLink(r)
        PROVE  links'[l].state = links[l].state /\ links'[l].by = links[l].by
    BY <1>1, <2>3, SendLinkParts
  <2>4. ASSUME NEW k \in Links, LinkExpires(k)
        PROVE  links'[l].state = links[l].state /\ links'[l].by = links[l].by
    BY <1>1, <2>1, <2>4 DEF LinkExpires, IInv, TypeOK, Link
  <2>5. CASE UNCHANGED links
    BY <2>5
  <2>6. \/ UNCHANGED links
        \/ \E r \in Requests : EndReset(r) \/ SendLink(r)
        \/ \E k \in Links : LinkExpires(k)
    BY <1>1 DEF Next, Start, Continue, SignIn, StartRefresh, Logout, ClaimLink, StartChange,
       AskLink, Rotate, StartReset, RevokeNext, EndSession, EndChange, Fail, TokenExpires
  <2> QED
    BY <2>2, <2>3, <2>4, <2>5, <2>6
<1> QED
  BY <1>1, Invariance, PTL DEF LinksAreSpent, Spec

-----------------------------------------------------------------------------
\* The sessions a request is asked to end, and has reached, one request at a time.
LEMMA FamiliesOfARequest ==
    ASSUME NEW r \in Requests
    PROVE  /\ Revokes(r) =>
                /\ FamiliesAsked[r] = {tokens[t].family : t \in requests[r].victims \cap Live}
                /\ FamiliesReached[r] = {tokens[t].family : t \in requests[r].held \cap Live}
           /\ ~Revokes(r) => FamiliesAsked[r] = {} /\ FamiliesReached[r] = {}
BY DEF FamiliesAsked, FamiliesReached

\* What is the same for every request is the same.
LEMMA SameForEach ==
    ASSUME NEW f, NEW g, f = [r \in Requests |-> f[r]], g = [r \in Requests |-> g[r]],
           \A r \in Requests : f[r] = g[r]
    PROVE  f = g
OBVIOUS

LEMMA PerRequest ==
    /\ FamiliesAsked = [r \in Requests |-> FamiliesAsked[r]]
    /\ FamiliesReached = [r \in Requests |-> FamiliesReached[r]]
BY DEF FamiliesAsked, FamiliesReached

\* The sessions asked for and reached stay when they do for each request.
LEMMA SessionsStay ==
    /\ (\A r \in Requests : FamiliesAsked'[r] = FamiliesAsked[r])
         => FamiliesAsked' = FamiliesAsked
    /\ (\A r \in Requests : FamiliesReached'[r] = FamiliesReached[r])
         => FamiliesReached' = FamiliesReached
<1>1. /\ FamiliesAsked' = [r \in Requests |-> FamiliesAsked'[r]]
      /\ FamiliesReached' = [r \in Requests |-> FamiliesReached'[r]]
  BY DEF FamiliesAsked, FamiliesReached
<1> QED
  BY ONLY <1>1, PerRequest, SameForEach

LEMMA FamiliesAreTokens ==
    ASSUME IInv
    PROVE  /\ \A t \in Issued : tokens[t].family \in Tokens
           /\ Live \subseteq Issued
           /\ OpenFamilies \subseteq Tokens
           /\ \A r \in Requests : /\ FamiliesAsked[r] \subseteq OpenFamilies
                                  /\ FamiliesReached[r] \subseteq OpenFamilies
<1>1. Live \subseteq Issued /\ \A t \in Issued : tokens[t].family \in Tokens
  BY DEF IInv, FamiliesAreNamed, Live, Issued
<1>2. OpenFamilies \subseteq Tokens
  BY <1>1 DEF OpenFamilies
<1>3. \A r \in Requests : /\ FamiliesAsked[r] \subseteq OpenFamilies
                          /\ FamiliesReached[r] \subseteq OpenFamilies
  BY FamiliesOfARequest DEF OpenFamilies
<1> QED
  BY <1>1, <1>2, <1>3

\* A request moves and no token changes: the sessions of the other requests stay.
LEMMA OneRequestMoves ==
    ASSUME IInv, NEW r \in Requests, NEW x, requests' = [requests EXCEPT ![r] = x],
           tokens' = tokens
    PROVE  /\ Families' = Families /\ OpenFamilies' = OpenFamilies /\ Live' = Live
           /\ FamiliesAsked' = [FamiliesAsked EXCEPT ![r] = FamiliesAsked'[r]]
           /\ FamiliesReached' = [FamiliesReached EXCEPT ![r] = FamiliesReached'[r]]
           /\ FamiliesAsked'[r] = FamiliesAsked[r] => FamiliesAsked' = FamiliesAsked
           /\ FamiliesReached'[r] = FamiliesReached[r] => FamiliesReached' = FamiliesReached
<1>1. \A q \in Requests \ {r} : requests'[q] = requests[q]
  BY DEF IInv, TypeOK
<1>2. Issued' = Issued /\ Live' = Live
  BY DEF Issued, Live
<1>3. Families' = Families /\ OpenFamilies' = OpenFamilies
  BY <1>2 DEF Families, OpenFamilies
<1>4. \A q \in Requests \ {r} : /\ FamiliesAsked'[q] = FamiliesAsked[q]
                                /\ FamiliesReached'[q] = FamiliesReached[q]
  BY <1>1, <1>2 DEF FamiliesAsked, FamiliesReached, Revokes
<1>5. FamiliesAsked' = [FamiliesAsked EXCEPT ![r] = FamiliesAsked'[r]]
  BY <1>4 DEF FamiliesAsked
<1>6. FamiliesReached' = [FamiliesReached EXCEPT ![r] = FamiliesReached'[r]]
  BY <1>4 DEF FamiliesReached
<1> QED
  BY <1>2, <1>3, <1>4, <1>5, <1>6, SessionsStay

\* A request goes on to something that holds no token yet.
Asks(r) ==
    \E x : /\ requests' = [requests EXCEPT ![r] = x]
           /\ x # None /\ x.op \in Revoking => x.held = {}

\* A request that revoked nothing so far is asked for something.
LEMMA AskingStep ==
    ASSUME IInv, NEW r \in Requests, ~Revokes(r), Asks(r), tokens' = tokens
    PROVE  Abstract!Next
<1> PICK x : /\ requests' = [requests EXCEPT ![r] = x]
             /\ x # None /\ x.op \in Revoking => x.held = {}
  BY DEF Asks
<1>0. Revokes(r)' => requests'[r].held = {}
  BY DEF Revokes, IInv, TypeOK
<1> DEFINE sessions == FamiliesAsked'[r]
<1>1. FamiliesAsked[r] = {} /\ FamiliesReached[r] = {}
  BY FamiliesOfARequest
<1>2. FamiliesReached'[r] = {}
  BY <1>0 DEF FamiliesReached
<1>3. FamiliesReached' = FamiliesReached
  BY <1>1, <1>2, OneRequestMoves
<1>4. sessions \subseteq OpenFamilies
  <2>1. Live' = Live
    BY OneRequestMoves
  <2> QED
    BY <2>1 DEF FamiliesAsked, OpenFamilies
<1>5. sessions \in SUBSET Tokens
  BY <1>4, FamiliesAreTokens
<1>6. /\ Families' = Families /\ OpenFamilies' = OpenFamilies
      /\ FamiliesAsked' = [FamiliesAsked EXCEPT ![r] = sessions]
  BY OneRequestMoves
<1> HIDE DEF sessions
<1>7. Abstract!AskOut(r, sessions)
  BY <1>1, <1>3, <1>4, <1>6 DEF Abstract!AskOut
<1> QED
  BY <1>5, <1>7 DEF Abstract!Next

\* A request that fails gives up what it was asked for.
LEMMA GivingUpStep ==
    ASSUME IInv, NEW r \in Requests, Fail(r) PROVE Abstract!Next
<1>1. requests' = [requests EXCEPT ![r] = None] /\ tokens' = tokens
  BY DEF Fail, Finish
<1>2. requests'[r] = None
  BY <1>1 DEF IInv, TypeOK
<1>3. FamiliesAsked'[r] = {} /\ FamiliesReached'[r] = {}
  BY <1>2 DEF FamiliesAsked, FamiliesReached, Revokes
<1>4. Abstract!GiveUp(r)
  BY <1>1, <1>3, OneRequestMoves DEF Abstract!GiveUp
<1> QED
  BY <1>4 DEF Abstract!Next

\* A revocation comes to a token: its session is reached, or it was renewed before.
LEMMA ReachingStep ==
    ASSUME IInv, NEW r \in Requests, NEW t \in Tokens, RevokeNext(r, t)
    PROVE  Abstract!Next \/ UNCHANGED Abstract!vars
<1> DEFINE old == requests[r]
           x == [old EXCEPT !.victims = @ \ {t},
                            !.held = IF t \in Live THEN @ \cup {t} ELSE @]
           f == tokens[t].family
<1>1. /\ requests' = [requests EXCEPT ![r] = x] /\ tokens' = tokens
      /\ Revokes(r) /\ old # None /\ t \in old.victims /\ ~Locked(t)
  BY DEF RevokeNext, Revokes, IInv, TypeOK
<1>2. old \in Request /\ old.op \in Revoking
  BY <1>1, RequestParts DEF IInv, Revokes
<1>3. /\ x.op = old.op /\ x.victims = old.victims \ {t}
      /\ x.held = IF t \in Live THEN old.held \cup {t} ELSE old.held
      /\ x \in Request
  <2>1. old.victims \subseteq Tokens /\ old.held \subseteq Tokens
    BY <1>1, RequestParts DEF IInv
  <2> DEFINE kept == old.victims \ {t}
             taken == IF t \in Live THEN old.held \cup {t} ELSE old.held
  <2>2. kept \subseteq Tokens /\ taken \subseteq Tokens
    BY <2>1
  <2>3. x = [old EXCEPT !.victims = kept, !.held = taken]
    BY <1>2 DEF Request, Revoking
  <2> HIDE DEF kept, taken, x
  <2>4. x \in Request /\ x.op = old.op /\ x.victims = kept /\ x.held = taken
    BY <1>2, <2>2, <2>3 DEF Request, Revoking
  <2> QED
    BY <2>4 DEF kept, taken
<1>4. x # None
  BY <1>3, RowAssumption
<1>5. requests'[r] = x
  BY <1>1 DEF IInv, TypeOK
<1> HIDE DEF x
<1>6. Live' = Live /\ Revokes(r)'
  BY <1>1, <1>2, <1>3, <1>4, <1>5, OneRequestMoves DEF Revokes
<1>7. /\ FamiliesAsked[r] = {tokens[s].family : s \in old.victims \cap Live}
      /\ FamiliesReached[r] = {tokens[s].family : s \in old.held \cap Live}
  BY <1>1, FamiliesOfARequest
<1>8. /\ FamiliesAsked'[r] = {tokens[s].family : s \in x.victims \cap Live}
      /\ FamiliesReached'[r] = {tokens[s].family : s \in x.held \cap Live}
  BY <1>1, <1>5, <1>6 DEF FamiliesAsked, FamiliesReached
<1>9. CASE t \in Live
  <2>1. \A s \in Live : tokens[s].family = f => s = t
    BY <1>9 DEF IInv, OneLiveTokenPerDevice
  <2>2. FamiliesAsked'[r] = FamiliesAsked[r] \ {f} /\ f \in FamiliesAsked[r]
    BY <1>1, <1>3, <1>7, <1>8, <1>9, <2>1
  <2>3. FamiliesReached'[r] = FamiliesReached[r] \cup {f}
    BY <1>3, <1>7, <1>8, <1>9
  <2>4. \A q \in Requests : f \notin FamiliesReached[q]
    <3>1. \A q \in Requests : Revokes(q) => t \notin requests[q].held
      BY <1>1 DEF Locked
    <3> QED
      BY <3>1, <2>1, FamiliesOfARequest
  <2>5. f \in Tokens
    BY <1>9, FamiliesAreTokens
  <2>6. /\ Families' = Families /\ OpenFamilies' = OpenFamilies
        /\ FamiliesAsked' = [FamiliesAsked EXCEPT ![r] = FamiliesAsked'[r]]
        /\ FamiliesReached' = [FamiliesReached EXCEPT ![r] = FamiliesReached'[r]]
    BY <1>1, OneRequestMoves
  <2>7. /\ FamiliesAsked' = [FamiliesAsked EXCEPT ![r] = FamiliesAsked[r] \ {f}]
        /\ FamiliesReached' = [FamiliesReached EXCEPT ![r] = FamiliesReached[r] \cup {f}]
    BY <2>2, <2>3, <2>6
  <2>8. Abstract!Reach(r, f)
    BY <2>2, <2>4, <2>6, <2>7 DEF Abstract!Reach, Abstract!Reached
  <2> QED
    BY <2>5, <2>8 DEF Abstract!Next
<1>10. CASE t \notin Live
  <2>1. FamiliesAsked'[r] = FamiliesAsked[r] /\ FamiliesReached'[r] = FamiliesReached[r]
    BY <1>3, <1>7, <1>8, <1>10
  <2>2. FamiliesAsked' = FamiliesAsked /\ FamiliesReached' = FamiliesReached
    BY <1>1, <2>1, OneRequestMoves
  <2> QED
    BY <1>1, <2>2, OneRequestMoves DEF Abstract!vars
<1> QED
  BY <1>9, <1>10

\* A device signs in: a session of its own.
LEMMA SigningInStep ==
    ASSUME IInv, NEW u \in Users, SignIn(u) PROVE Abstract!Next
<1>1. PICK n \in Tokens \ Issued : tokens' = [tokens EXCEPT ![n] = FirstToken(u, n)]
  BY DEF SignIn
<1> DEFINE row == FirstToken(u, n)
<1>2. row \in Token /\ row.family = n /\ row.live
  BY <1>1 DEF FirstToken, Token
<1>3. row # None
  BY <1>2, RowAssumption
<1>4. tokens'[n] = row /\ \A t \in Tokens \ {n} : tokens'[t] = tokens[t]
  BY <1>1 DEF IInv, TypeOK
<1> HIDE DEF row
<1>5. n \in Tokens /\ n \notin Issued /\ Issued' = Issued \cup {n}
  BY <1>1, <1>3, <1>4 DEF Issued
<1>6. Live' = Live \cup {n}
  BY <1>2, <1>4, <1>5 DEF Live, Issued
<1>7. \A t \in Issued : tokens'[t] = tokens[t]
  BY <1>4, <1>5 DEF Issued
<1>8. tokens'[n].family = n
  BY <1>2, <1>4
<1>9. Families' = Families \cup {n}
  BY <1>5, <1>7, <1>8 DEF Families
<1>10. OpenFamilies' = OpenFamilies \cup {n}
  BY <1>6, <1>7, <1>8 DEF OpenFamilies, Live
<1>11. n \notin Families
  BY <1>5 DEF IInv, FamiliesAreNamed, Families
<1>12. /\ FamiliesAsked' = FamiliesAsked /\ FamiliesReached' = FamiliesReached
  <2>1. requests' = requests
    BY DEF SignIn
  <2>2. \A r \in Requests : Revokes(r) =>
          n \notin requests[r].victims /\ n \notin requests[r].held
    BY <1>5 DEF IInv, HoldsTokens, Live
  <2>3. \A t \in Live : tokens'[t].family = tokens[t].family
    BY <1>7, FamiliesAreTokens
  <2>4. \A r \in Requests : /\ FamiliesAsked'[r] = FamiliesAsked[r]
                            /\ FamiliesReached'[r] = FamiliesReached[r]
    <3> SUFFICES ASSUME NEW r \in Requests
                 PROVE  /\ FamiliesAsked'[r] = FamiliesAsked[r]
                        /\ FamiliesReached'[r] = FamiliesReached[r]
      OBVIOUS
    <3>1. CASE ~Revokes(r)
      BY <2>1, <3>1 DEF FamiliesAsked, FamiliesReached, Revokes
    <3>2. CASE Revokes(r)
      <4>1. /\ requests[r].victims \cap Live' = requests[r].victims \cap Live
            /\ requests[r].held \cap Live' = requests[r].held \cap Live
        BY <1>6, <2>2, <3>2
      <4>2. /\ FamiliesAsked'[r] = {tokens'[t].family : t \in requests[r].victims \cap Live}
            /\ FamiliesReached'[r] = {tokens'[t].family : t \in requests[r].held \cap Live}
        BY <2>1, <3>2, <4>1 DEF FamiliesAsked, FamiliesReached, Revokes
      <4> QED
        BY <2>3, <3>2, <4>2, FamiliesOfARequest
    <3> QED
      BY <3>1, <3>2
  <2> QED
    BY <2>4, SessionsStay
<1> QED
  BY <1>5, <1>9, <1>10, <1>11, <1>12 DEF Abstract!Next, Abstract!SignIn

\* A rotation renews a session that nobody has reached, and whoever was asked to end
\* it finds its token exchanged.
LEMMA RenewingStep ==
    ASSUME IInv, NEW r \in Requests, Rotate(r) PROVE Abstract!Next
<1> DEFINE p == requests[r].token
           old(n) == Replaced(tokens[p], n)
           new(n) == Successor(p, n)
<1>1. PICK n \in Tokens \ Issued :
         tokens' = [tokens EXCEPT ![p] = Replaced(@, n), ![n] = Successor(p, n)]
  BY DEF Rotate
<1>2. p \in Live /\ p \in Issued /\ p \in Tokens /\ p # n /\ n \in Tokens
  BY <1>1 DEF Rotate, IInv, RotatesALiveToken, Live, Issued
<1>3. tokens[p] \in Token
  BY <1>2, RowParts DEF IInv
<1>4. /\ old(n) \in Token /\ ~old(n).live /\ old(n).family = tokens[p].family
      /\ new(n) \in Token /\ new(n).live /\ new(n).family = tokens[p].family
  <2>1. tokens[p].user \in Users /\ tokens[p].family \in Tokens
    BY <1>3 DEF Token
  <2> QED
    BY <1>2, <1>3, <2>1 DEF Replaced, Successor, FirstToken, Token
<1>5. old(n) # None /\ new(n) # None
  BY <1>4, RowAssumption
<1>6. /\ tokens'[p] = old(n) /\ tokens'[n] = new(n)
      /\ \A s \in Tokens \ {p, n} : tokens'[s] = tokens[s]
  BY <1>1, <1>2 DEF IInv, TypeOK
<1> HIDE DEF old, new
<1>7. Issued' = Issued \cup {n}
  BY <1>2, <1>5, <1>6 DEF Issued
<1>8. n \notin Issued
  BY <1>1
<1>9. Live' = (Live \ {p}) \cup {n}
  BY <1>2, <1>4, <1>6, <1>7, <1>8 DEF Live, Issued
<1>10. \A s \in Issued : tokens'[s].family = tokens[s].family
  BY <1>4, <1>6, <1>8 DEF Issued
<1>11. tokens'[n].family = tokens[p].family
  BY <1>4, <1>6
<1>12. Families' = Families
  BY <1>2, <1>7, <1>10, <1>11 DEF Families
<1>13. Live \subseteq Issued
  BY DEF Live
<1>14. \A s \in Live \ {p} : tokens'[s].family = tokens[s].family
  BY <1>10, <1>13
<1>15. OpenFamilies' = OpenFamilies
  BY <1>2, <1>9, <1>11, <1>14 DEF OpenFamilies
<1>16. \A s \in Live : tokens[s].family = tokens[p].family => s = p
  BY <1>2 DEF IInv, OneLiveTokenPerDevice
<1>17. \A q \in Requests : Revokes(q) =>
         /\ p \notin requests[q].held
         /\ n \notin requests[q].held /\ n \notin requests[q].victims
  <2>1. p \in LockedBy(r) /\ ~Revokes(r)
    BY <1>2 DEF Rotate, LockedBy, Doing, Revokes, Revoking
  <2>2. \A q \in Requests : Revokes(q) => p \notin requests[q].held
    BY <1>2, <2>1 DEF IInv, TokenLocksExclude, LockedBy
  <2>3. \A q \in Requests : Revokes(q) =>
          n \notin requests[q].held /\ n \notin requests[q].victims
    BY <1>8, <1>13 DEF IInv, HoldsTokens
  <2> QED
    BY <2>2, <2>3
<1>18. \A q \in Requests : (Revokes(q)' <=> Revokes(q)) /\ (Revokes(q) => requests'[q] = requests[q])
  <2>1. ~Revokes(r) /\ requests'[r] = None
    BY DEF Rotate, Finish, Doing, Revokes, Revoking, IInv, TypeOK
  <2>2. \A q \in Requests \ {r} : requests'[q] = requests[q]
    BY DEF Rotate, Finish, IInv, TypeOK
  <2> QED
    BY <2>1, <2>2 DEF Revokes
<1> DEFINE f == tokens[p].family
<1>19. \A q \in Requests : FamiliesReached'[q] = FamiliesReached[q] /\ f \notin FamiliesReached[q]
  <2> SUFFICES ASSUME NEW q \in Requests
               PROVE  FamiliesReached'[q] = FamiliesReached[q] /\ f \notin FamiliesReached[q]
    OBVIOUS
  <2>1. CASE ~Revokes(q)
    BY <2>1, <1>18 DEF FamiliesReached
  <2>2. CASE Revokes(q)
    <3>1. requests[q].held \cap Live' = requests[q].held \cap Live
      BY <2>2, <1>9, <1>17
    <3>2. FamiliesReached'[q] = {tokens'[s].family : s \in requests[q].held \cap Live}
      BY <2>2, <3>1, <1>18 DEF FamiliesReached
    <3>3. FamiliesReached[q] = {tokens[s].family : s \in requests[q].held \cap Live}
      BY <2>2 DEF FamiliesReached
    <3>4. \A s \in requests[q].held \cap Live : tokens'[s].family = tokens[s].family /\ s # p
      BY <2>2, <1>14, <1>17
    <3> QED
      BY <3>2, <3>3, <3>4, <1>16
  <2> QED
    BY <2>1, <2>2
<1>20. \A q \in Requests : FamiliesAsked'[q] = FamiliesAsked[q] \ {f}
  <2> SUFFICES ASSUME NEW q \in Requests PROVE FamiliesAsked'[q] = FamiliesAsked[q] \ {f}
    OBVIOUS
  <2>1. CASE ~Revokes(q)
    BY <2>1, <1>18 DEF FamiliesAsked
  <2>2. CASE Revokes(q)
    <3>1. requests[q].victims \cap Live' = (requests[q].victims \cap Live) \ {p}
      BY <2>2, <1>9, <1>17
    <3>2. FamiliesAsked'[q] = {tokens'[s].family : s \in (requests[q].victims \cap Live) \ {p}}
      BY <2>2, <3>1, <1>18 DEF FamiliesAsked
    <3>3. FamiliesAsked[q] = {tokens[s].family : s \in requests[q].victims \cap Live}
      BY <2>2 DEF FamiliesAsked
    <3>4. \A s \in Live \ {p} : tokens'[s].family = tokens[s].family /\ tokens[s].family # f
      BY <1>14, <1>16
    <3> QED
      BY <3>2, <3>3, <3>4
  <2> QED
    BY <2>1, <2>2
<1>21. /\ FamiliesReached' = FamiliesReached
       /\ FamiliesAsked' = [q \in Requests |-> FamiliesAsked[q] \ {f}]
  BY <1>19, <1>20 DEF FamiliesAsked, FamiliesReached
<1>22. f \in Tokens /\ f \in OpenFamilies
  BY <1>2, FamiliesAreTokens DEF OpenFamilies
<1>23. Abstract!Renew(f)
  BY <1>12, <1>15, <1>19, <1>21, <1>22
     DEF Abstract!Renew, Abstract!Reached, Abstract!NotAsked
<1> QED
  BY <1>22, <1>23 DEF Abstract!Next

\* The age of a token is no event to its session.
LEMMA AgeingStep ==
    ASSUME IInv, NEW q \in Tokens, TokenExpires(q) PROVE UNCHANGED Abstract!vars
<1> DEFINE row == [tokens[q] EXCEPT !.expired = TRUE]
<1>1. q \in Issued /\ tokens[q] \in Token /\ tokens' = [tokens EXCEPT ![q] = row]
  BY RowParts DEF IInv, TokenExpires
<1>2. row \in Token /\ row.family = tokens[q].family /\ row.live = tokens[q].live
  BY <1>1 DEF Token
<1>3. row # None
  BY <1>2, RowAssumption
<1>4. tokens'[q] = row /\ \A t \in Tokens \ {q} : tokens'[t] = tokens[t]
  BY <1>1 DEF IInv, TypeOK
<1> HIDE DEF row
<1>5. Issued' = Issued
  BY <1>1, <1>3, <1>4 DEF Issued
<1>6. \A t \in Issued : /\ tokens'[t].family = tokens[t].family
                        /\ tokens'[t].live = tokens[t].live
  BY <1>2, <1>4 DEF Issued
<1>7. Live' = Live
  BY <1>5, <1>6 DEF Live
<1>8. Families' = Families /\ OpenFamilies' = OpenFamilies
  BY <1>5, <1>6, <1>7 DEF Families, OpenFamilies, Live
<1>9. FamiliesAsked' = FamiliesAsked /\ FamiliesReached' = FamiliesReached
  <2>1. requests' = requests
    BY DEF TokenExpires
  <2>2. \A t \in Live : tokens'[t].family = tokens[t].family
    BY <1>6, FamiliesAreTokens
  <2>3. \A r \in Requests : /\ FamiliesAsked'[r] = FamiliesAsked[r]
                            /\ FamiliesReached'[r] = FamiliesReached[r]
    BY <1>7, <2>1, <2>2 DEF FamiliesAsked, FamiliesReached, Revokes
  <2> QED
    BY <2>3 DEF FamiliesAsked, FamiliesReached
<1> QED
  BY <1>8, <1>9 DEF Abstract!vars

\* A revocation commits: it ends the sessions it has reached, and no others.
LEMMA SigningOutStep ==
    ASSUME IInv, NEW r \in Requests, EndSession(r) \/ EndReset(r) \/ EndChange(r)
    PROVE  Abstract!Next
<1> DEFINE held == requests[r].held
           ended == FamiliesReached[r]
<1>1. Revokes(r) /\ Revoke(r) /\ requests[r].victims = {}
  BY DEF EndSession, EndReset, EndChange, Doing, Revokes, Revoking, Revoke
<1>2. held \subseteq Live
  BY <1>1 DEF IInv, HoldsTokens
<1>3. /\ Issued' = Issued
      /\ \A t \in Issued : tokens'[t].family = tokens[t].family
      /\ Live' = Live \ held
  <2>1. /\ Issued' = Issued
        /\ \A t \in Issued : /\ tokens'[t].family = tokens[t].family
                             /\ tokens'[t].live <=> tokens[t].live /\ t \notin held
    BY <1>1, RevokeParts
  <2> QED
    BY <2>1 DEF Live
<1>4. ended = {tokens[t].family : t \in held}
  BY <1>1, <1>2, FamiliesOfARequest
<1>5. \A t \in Live : tokens[t].family \in ended <=> t \in held
  BY <1>2, <1>4 DEF IInv, OneLiveTokenPerDevice
<1>6. \A t \in Live : tokens'[t].family = tokens[t].family
  BY <1>3, FamiliesAreTokens
<1>7. Families' = Families
  BY <1>3 DEF Families
<1>8. OpenFamilies' = OpenFamilies \ ended
  <2>1. OpenFamilies' = {tokens[t].family : t \in Live \ held}
    BY <1>3, <1>6 DEF OpenFamilies
  <2> QED
    BY <2>1, <1>5 DEF OpenFamilies
<1>9. \A q \in Requests \ {r} : requests'[q] = requests[q]
  BY <1>1, RevokeParts
<1>10. requests'[r] = None
  BY <1>1, RevokeParts
<1>11. FamiliesAsked[r] = {}
  BY <1>1, FamiliesOfARequest
<1>12. \A q \in Requests : FamiliesAsked'[q] = FamiliesAsked[q] \ ended
  <2> SUFFICES ASSUME NEW q \in Requests PROVE FamiliesAsked'[q] = FamiliesAsked[q] \ ended
    OBVIOUS
  <2>1. CASE q = r
    BY <2>1, <1>10, <1>11 DEF FamiliesAsked, Revokes
  <2>2. CASE q # r /\ Revokes(q)
    <3>1. FamiliesAsked[q] = {tokens[t].family : t \in requests[q].victims \cap Live}
      BY <2>2, FamiliesOfARequest
    <3>2. FamiliesAsked'[q] = {tokens'[t].family : t \in requests[q].victims \cap (Live \ held)}
      BY <2>2, <1>3, <1>9 DEF FamiliesAsked, Revokes
    <3> QED
      BY <3>1, <3>2, <1>5, <1>6
  <2>3. CASE q # r /\ ~Revokes(q)
    BY <2>3, <1>9 DEF FamiliesAsked, Revokes
  <2> QED
    BY <2>1, <2>2, <2>3
<1>13. \A q \in Requests \ {r} : FamiliesReached'[q] = FamiliesReached[q]
  <2> SUFFICES ASSUME NEW q \in Requests \ {r}
               PROVE  FamiliesReached'[q] = FamiliesReached[q]
    OBVIOUS
  <2>1. CASE Revokes(q)
    <3>1. requests[q].held \subseteq Live /\ requests[q].held \cap held = {}
      <4>1. requests[q].held \subseteq Live
        BY <2>1 DEF IInv, HoldsTokens
      <4>2. \A t \in held : t \in Tokens /\ t \in LockedBy(r)
        BY <1>1, <1>2 DEF LockedBy, Live, Issued
      <4>3. \A t \in requests[q].held : t \in Tokens /\ t \in LockedBy(q)
        BY <2>1, <4>1 DEF LockedBy, Live, Issued
      <4> QED
        BY <4>1, <4>2, <4>3 DEF IInv, TokenLocksExclude
    <3>2. requests[q].held \cap Live' = requests[q].held \cap Live
      BY <3>1, <1>3
    <3>3. FamiliesReached'[q] = {tokens'[t].family : t \in requests[q].held \cap Live}
      BY <2>1, <3>2, <1>9 DEF FamiliesReached, Revokes
    <3>4. FamiliesReached[q] = {tokens[t].family : t \in requests[q].held \cap Live}
      BY <2>1, FamiliesOfARequest
    <3> QED
      BY <3>3, <3>4, <1>6
  <2>2. CASE ~Revokes(q)
    BY <2>2, <1>9 DEF FamiliesReached, Revokes
  <2> QED
    BY <2>1, <2>2
<1>14. FamiliesReached'[r] = {}
  BY <1>10 DEF FamiliesReached, Revokes
<1>15. FamiliesAsked' = [q \in Requests |-> FamiliesAsked[q] \ ended]
  BY <1>12 DEF FamiliesAsked
<1>16. FamiliesReached' = [FamiliesReached EXCEPT ![r] = {}]
  BY <1>13, <1>14 DEF FamiliesReached
<1> HIDE DEF ended
<1>17. OpenFamilies' = OpenFamilies \ FamiliesReached[r]
  BY <1>8 DEF ended
<1>18. FamiliesAsked' = [q \in Requests |-> FamiliesAsked[q] \ FamiliesReached[r]]
  BY <1>15 DEF ended
<1>19. Abstract!SignOut(r)
  BY <1>7, <1>11, <1>16, <1>17, <1>18 DEF Abstract!SignOut, Abstract!NotAsked
<1> QED
  BY <1>19 DEF Abstract!Next

\* Every step is a step of DeviceSessions or none of the device's business.
LEMMA SessionsStep == IInv /\ [Next]_vars => [Abstract!Next]_(Abstract!vars)
<1> SUFFICES ASSUME IInv, [Next]_vars PROVE Abstract!Next \/ UNCHANGED Abstract!vars
  OBVIOUS
<1>1. ASSUME NEW u \in Users, SignIn(u) PROVE Abstract!Next
  BY <1>1, SigningInStep
<1>2. ASSUME NEW r \in Requests, Start(r) \/ StartReset(r) \/ SendLink(r) PROVE Abstract!Next
  <2>1. ~Revokes(r)
    BY <1>2 DEF Start, StartRefresh, Logout, ClaimLink, StartChange, AskLink, StartReset,
       SendLink, Idle, Doing, Revokes, Revoking
  <2>2. tokens' = tokens
    BY <1>2 DEF Start, StartRefresh, Logout, ClaimLink, StartChange, AskLink, StartReset,
       SendLink
  <2>3. Asks(r)
    <3>1. ASSUME NEW t \in Tokens, StartRefresh(r, t)
          PROVE  Asks(r)
      BY <3>1 DEF StartRefresh, Revoking, Asks
    <3>2. ASSUME NEW t \in Tokens, Logout(r, t)
          PROVE  Asks(r)
      <4>1. PICK x : x = [op |-> "logout", token |-> t,
                         victims |-> FamilyOf(t) \cap Live, held |-> {}]
        OBVIOUS
      <4>2. x # None /\ x.op \in Revoking => x.held = {}
        BY <4>1 DEF Revoking
      <4> QED
        BY <3>2, <4>1, <4>2 DEF Logout, Asks
    <3>3. ASSUME NEW l \in Links, ClaimLink(r, l)
          PROVE  Asks(r)
      <4>1. PICK x : x = [op |-> "claim", link |-> l]
        OBVIOUS
      <4>2. x # None /\ x.op \in Revoking => x.held = {}
        BY <4>1 DEF Revoking
      <4> QED
        BY <3>3, <4>1, <4>2 DEF ClaimLink, Asks
    <3>4. ASSUME NEW u \in Users, NEW keeping \in Tokens \cup {None},
                 StartChange(r, u, keeping)
          PROVE  Asks(r)
      <4>1. PICK left : left = LiveOf(u) \ {keeping}
        OBVIOUS
      <4>2. PICK x : x = [op |-> "change", user |-> u,
                          families |-> {tokens[t].family : t \in left},
                          victims |-> left, held |-> {}]
        OBVIOUS
      <4>3. x # None /\ x.op \in Revoking => x.held = {}
        BY <4>2
      <4> QED
        BY <3>4, <4>1, <4>2, <4>3 DEF StartChange, Asks
    <3>5. ASSUME NEW u \in Users, AskLink(r, u)
          PROVE  Asks(r)
      <4>1. PICK x : x = [op |-> "ask", user |-> u, found |-> OpenLinks(u)]
        OBVIOUS
      <4>2. x # None /\ x.op \in Revoking => x.held = {}
        BY <4>1 DEF Revoking
      <4> QED
        BY <3>5, <4>1, <4>2 DEF AskLink, Asks
    <3>6. ASSUME StartReset(r)
          PROVE  Asks(r)
      <4>1. PICK l : l = requests[r].link
        OBVIOUS
      <4>2. PICK x : x = [op |-> "reset", link |-> l,
                          victims |-> LiveOf(links[l].user), held |-> {}]
        OBVIOUS
      <4>3. x # None /\ x.op \in Revoking => x.held = {}
        BY <4>2
      <4> QED
        BY <3>6, <4>1, <4>2, <4>3 DEF StartReset, Asks
    <3>7. ASSUME SendLink(r)
          PROVE  Asks(r)
      BY <3>7 DEF SendLink, Finish, Asks
    <3> QED
      BY <1>2, <3>1, <3>2, <3>3, <3>4, <3>5, <3>6, <3>7 DEF Start
  <2> QED
    BY <2>1, <2>2, <2>3, AskingStep
<1>3. ASSUME NEW r \in Requests, Rotate(r) PROVE Abstract!Next
  BY <1>3, RenewingStep
<1>4. ASSUME NEW r \in Requests, EndSession(r) \/ EndReset(r) \/ EndChange(r)
      PROVE  Abstract!Next
  BY <1>4, SigningOutStep
<1>5. ASSUME NEW r \in Requests, NEW t \in Tokens, RevokeNext(r, t)
      PROVE  Abstract!Next \/ UNCHANGED Abstract!vars
  BY <1>5, ReachingStep
<1>6. ASSUME NEW r \in Requests, Fail(r) PROVE Abstract!Next
  BY <1>6, GivingUpStep
<1>7. ASSUME NEW q \in Tokens, TokenExpires(q) PROVE UNCHANGED Abstract!vars
  BY <1>7, AgeingStep
<1>8. CASE UNCHANGED <<tokens, requests>>
  BY <1>8 DEF Abstract!vars, Families, OpenFamilies, FamiliesAsked, FamiliesReached,
     Revokes, Live, Issued
<1>9. \/ UNCHANGED <<tokens, requests>>
      \/ \E u \in Users : SignIn(u)
      \/ \E r \in Requests : Start(r) \/ Continue(r)
      \/ \E t \in Tokens : TokenExpires(t)
  BY DEF Next, vars, LinkExpires
<1>10. ASSUME NEW r \in Requests, Continue(r)
       PROVE  Abstract!Next \/ UNCHANGED Abstract!vars
  BY <1>2, <1>3, <1>4, <1>5, <1>6, <1>10 DEF Continue
<1> QED
  BY <1>1, <1>2, <1>7, <1>8, <1>9, <1>10

\* Rotating tokens implement the sessions of DeviceSessions: a logout, a reused token, a
\* reset or a change of the password ends every session it is asked to end, unless it
\* was renewed before it was reached; what has ended stays ended.
THEOREM SessionsRefine == Spec => DeviceSessionsAreKept
<1>1. Init => Abstract!Init
  BY DEF Init, Abstract!Init, Abstract!Nobody, Families, OpenFamilies, FamiliesAsked,
     FamiliesReached, Revokes, Live, Issued
<1> QED
  BY <1>1, SessionsStep, Invariance, PTL DEF DeviceSessionsAreKept, Abstract!Spec, Spec

-----------------------------------------------------------------------------
(***************************************************************************)
(* The review of photographed pages.                                       *)
(***************************************************************************)
\* A row of marks for a page: for a printed one, a mark beside every name on it.
Carries(page, marks) ==
    IF page = "register" THEN marks \in [Members -> Marks]
    ELSE page \in Recorded /\ \A m \in NamesOn(scans[page].sheet) : marks[m] # Null

\* Once a scan was read it is never unread again.
WasRead(page) == page # "register" => scans[page].status # "uploaded"

InRegister(sheet) == \A m \in NamesOn(sheet) : register[m] # Null

\* What was read was the page itself, under limits that were in force.
ReadSound ==
    \A s \in Recorded : scans[s].status \in {"detected", "committed"} =>
        /\ Shot[scans[s].shot].sheet = scans[s].sheet
        /\ \E c \in Configs :
              scans[s].rows = Measured(scans[s].shot, Len(Manifest[scans[s].sheet]), Limits(c))

CommitsRecorded ==
    \A s \in Recorded : scans[s].status = "committed" => InRegister(scans[s].sheet)

ReadingSound(o) ==
    reading[o] # Null =>
        reading[o].scan \in Recorded /\ \E c \in Configs : reading[o].limits = Limits(c)

SaveSound(o) ==
    saving[o] # Null =>
        Carries(saving[o].page, saving[o].entries) /\ WasRead(saving[o].page)

ScreenSound(o) ==
    screens[o] # Null =>
        /\ Carries(screens[o].page, screens[o].marks)
        /\ screens[o].status # "uploaded" => WasRead(screens[o].page)
        /\ screens[o].page = "register" => screens[o].status = "open"
        /\ screens[o].status = "committed" =>
              \A sheet \in Printing \ screens[o].missing : InRegister(sheet)

ReviewInv ==
    /\ ReviewTypeOK /\ ReadSound /\ CommitsRecorded
    /\ \A o \in Officers : ReadingSound(o) /\ SaveSound(o) /\ ScreenSound(o)

-----------------------------------------------------------------------------
LEMMA LimitsInForce == ASSUME NEW c \in Configs PROVE Limits(c) \in Limit
<1>1. c \in Config /\ Default \in Limit
    BY ReviewAssumption
<1> QED
    BY <1>1 DEF Limits, ConfigNumber, Config, Limit

LEMMA Names ==
    ASSUME NEW sheet \in Sheets
    PROVE  /\ Manifest[sheet] \in Seq(Members) /\ Len(Manifest[sheet]) \in Nat \ {0}
           /\ NamesOn(sheet) \subseteq Members
           /\ \A m \in NamesOn(sheet) :
                 /\ RowOf(sheet, m) \in 1 .. Len(Manifest[sheet])
                 /\ Manifest[sheet][RowOf(sheet, m)] = m
<1>1. Manifest[sheet] \in Seq(Members) /\ Manifest[sheet] # <<>>
    BY ReaderAssumption
<1>2. Len(Manifest[sheet]) \in Nat \ {0} /\ DOMAIN Manifest[sheet] = 1 .. Len(Manifest[sheet])
    BY <1>1
<1>3. ASSUME NEW m \in NamesOn(sheet)
      PROVE  RowOf(sheet, m) \in DOMAIN Manifest[sheet] /\ Manifest[sheet][RowOf(sheet, m)] = m
    BY <1>3 DEF NamesOn, RowOf
<1>4. NamesOn(sheet) \subseteq Members
    BY <1>1 DEF NamesOn
<1> QED
    BY <1>1, <1>2, <1>3, <1>4

LEMMA Proposals ==
    ASSUME ReviewTypeOK, NEW m \in Members, NEW state
    PROVE  ProposalFor(state, RecordedStatus(m)) \in Marks
<1>1. RecordedStatus(m) \in {"present", "absent", "apology", Null}
    BY DEF ReviewTypeOK, RecordedStatus, RegisterRow, StatusOf, Marks
<1> QED
    BY <1>1 DEF ProposalFor, Marks

\* A page that was read has a cell for every name on it.
LEMMA Reads ==
    ASSUME NEW p \in Shots, NEW sheet \in Sheets, NEW limits \in Limit
    PROVE  LET rows == Measured(p, Len(Manifest[sheet]), limits)
           IN /\ rows \in Seq(CellState) /\ rows # <<>>
              /\ DOMAIN rows = 1 .. Len(Manifest[sheet])
              /\ \A i \in DOMAIN rows : rows[i] = Cell(InkAt(p, i), limits)
<1> DEFINE n == Len(Manifest[sheet])
           rows == Measured(p, n, limits)
<1>1. n \in Nat \ {0}
    BY Names
<1> HIDE DEF n
<1>2. \A i \in 1 .. n : Cell(InkAt(p, i), limits) \in CellState
    BY DEF Cell, CellState
<1>3. rows \in Seq(CellState) /\ rows # <<>> /\ DOMAIN rows = 1 .. n
    BY <1>1, <1>2 DEF Measured
<1>4. \A i \in DOMAIN rows : rows[i] = Cell(InkAt(p, i), limits)
    BY <1>3 DEF Measured
<1> QED
    BY <1>3, <1>4 DEF n

\* What the reader answers: nothing, or the page it was asked about.
LEMMA Answers ==
    ASSUME NEW p \in Shots, NEW sheet \in Sheets, NEW limits \in Limit
    PROVE  LET result == Detect(p, sheet, limits)
           IN /\ result.status \in {"detected", "rejected"} /\ result.rows \in Seq(CellState)
              /\ result.status = "detected" =>
                    /\ Shot[p].sheet = sheet
                    /\ result.rows = Measured(p, Len(Manifest[sheet]), limits)
<1> DEFINE rows == Measured(p, Len(Manifest[sheet]), limits)
<1>1. rows \in Seq(CellState)
    BY Reads
<1> HIDE DEF rows
<1>2. \/ /\ Detect(p, sheet, limits) = [status |-> "detected", code |-> CodeOn(p), rows |-> rows]
         /\ CodeOn(p) = sheet
      \/ Detect(p, sheet, limits) = [status |-> "rejected", code |-> Null, rows |-> <<>>]
    BY DEF Detect, Rejected, rows
<1>3. CASE Detect(p, sheet, limits) = [status |-> "detected", code |-> CodeOn(p), rows |-> rows]
             /\ CodeOn(p) = sheet
    BY <1>1, <1>3 DEF rows, CodeOn
<1>4. CASE Detect(p, sheet, limits) = [status |-> "rejected", code |-> Null, rows |-> <<>>]
    BY <1>4
<1> QED
    BY <1>2, <1>3, <1>4

-----------------------------------------------------------------------------
\* Scans keep their sheet and what was read stays read; the register only grows.
Grows ==
    /\ \A s \in Recorded :
          /\ scans'[s] # Null /\ scans'[s].sheet = scans[s].sheet
          /\ scans[s].status # "uploaded" => scans'[s].status # "uploaded"
    /\ \A m \in Members : register[m] # Null => register'[m] # Null

\* What was sound before such a step is sound after it.
LEMMA Stays ==
    ASSUME ReviewInv, Grows, ReviewTypeOK', ReadSound', CommitsRecorded',
           \A o \in Officers :
              /\ reading'[o] \in {reading[o], Null} \/ ReadingSound(o)'
              /\ saving'[o] \in {saving[o], Null} \/ SaveSound(o)'
              /\ screens'[o] \in {screens[o], Null} \/ ScreenSound(o)'
    PROVE  ReviewInv'
<1>1. \A s \in Recorded : s \in Recorded' /\ s \in ScanIds
    BY DEF Grows, Recorded
<1>2. ASSUME NEW page, NEW marks, page # "register" => page \in Recorded
      PROVE  /\ Carries(page, marks) => Carries(page, marks)'
             /\ WasRead(page) => WasRead(page)'
    BY <1>1, <1>2 DEF Carries, WasRead, Grows, NamesOn
<1>3. ASSUME NEW sheet \in Printing, InRegister(sheet) PROVE InRegister(sheet)'
    <2>1. NamesOn(sheet) \subseteq Members
        BY Names, ReviewAssumption
    <2> QED
        BY <1>3, <2>1 DEF InRegister, Grows, NamesOn
<1>4. ASSUME NEW o \in Officers PROVE ReadingSound(o)'
    BY <1>1 DEF ReviewInv, ReadingSound
<1>5. ASSUME NEW o \in Officers PROVE SaveSound(o)'
    <2>1. CASE saving'[o] = saving[o] /\ saving[o] # Null
        <3>1. PICK page, entries : page = saving[o].page /\ entries = saving[o].entries
            OBVIOUS
        <3>2. Carries(page, entries) /\ WasRead(page)
            BY <2>1, <3>1 DEF ReviewInv, SaveSound
        <3>3. Carries(page, entries)' /\ WasRead(page)'
            BY <1>2, <3>2 DEF Carries
        <3> QED
            BY <2>1, <3>1, <3>3 DEF SaveSound, Carries, WasRead
    <2> QED
        BY <2>1 DEF SaveSound
<1>6. ASSUME NEW o \in Officers PROVE ScreenSound(o)'
    <2>1. CASE screens'[o] = screens[o] /\ screens[o] # Null
        <3>1. PICK page, marks : page = screens[o].page /\ marks = screens[o].marks
            OBVIOUS
        <3>2. /\ Carries(page, marks)
              /\ screens[o].status # "uploaded" => WasRead(page)
              /\ page = "register" => screens[o].status = "open"
              /\ screens[o].status = "committed" =>
                    \A sheet \in Printing \ screens[o].missing : InRegister(sheet)
            BY <2>1, <3>1 DEF ReviewInv, ScreenSound
        <3>3. Carries(page, marks)' /\ (screens[o].status # "uploaded" => WasRead(page)')
            BY <1>2, <3>2 DEF Carries
        <3>4. screens[o].status = "committed" =>
                  \A sheet \in Printing \ screens[o].missing : InRegister(sheet)'
            BY <1>3, <3>2
        <3> QED
            BY <2>1, <3>1, <3>2, <3>3, <3>4 DEF ScreenSound, Carries, WasRead, InRegister
    <2> QED
        BY <2>1 DEF ScreenSound
<1> QED
    BY <1>4, <1>5, <1>6 DEF ReviewInv

LEMMA Quiet ==
    ASSUME ReviewInv, UNCHANGED <<scans, register>>
    PROVE  Grows /\ ReadSound' /\ CommitsRecorded'
<1>1. Grows
    BY DEF Grows, Recorded
<1>2. ReadSound'
    BY DEF ReviewInv, ReadSound, Recorded
<1>3. CommitsRecorded'
    BY DEF ReviewInv, CommitsRecorded, Recorded, InRegister
<1> QED
    BY <1>1, <1>2, <1>3

LEMMA ReviewStarts == ReviewInit => ReviewInv
<1> SUFFICES ASSUME ReviewInit PROVE ReviewInv
    OBVIOUS
<1>1. ReviewTypeOK
    BY ReviewAssumption DEF ReviewInit, ReviewTypeOK
<1>2. ReadSound /\ CommitsRecorded
    BY DEF ReviewInit, ReadSound, CommitsRecorded, Recorded
<1>3. \A o \in Officers : ReadingSound(o) /\ SaveSound(o) /\ ScreenSound(o)
    BY DEF ReviewInit, ReadingSound, SaveSound, ScreenSound
<1> QED
    BY <1>1, <1>2, <1>3 DEF ReviewInv

LEMMA OpenRegister ==
    ASSUME ReviewInv, NEW o \in Officers, Open(o, "register")
    PROVE  ReviewInv'
<1>1. screens' = [screens EXCEPT ![o] = RegisterScreen]
      /\ UNCHANGED <<config, scans, register, saving, reading, changed>>
    BY ReviewAssumption DEF Open, Recorded
<1>2. Listed \in [Members -> Marks]
    BY DEF Listed, ReviewInv, ReviewTypeOK, RegisterRow, Marks
<1> HIDE DEF Listed
<1>3. RegisterScreen \in Screen
    BY <1>2 DEF RegisterScreen, Screen, Page, Marking
<1>4. ReviewTypeOK'
    BY <1>1, <1>3 DEF ReviewInv, ReviewTypeOK
<1>5. ScreenSound(o)'
    <2>1. screens'[o] = RegisterScreen
        BY <1>1 DEF ReviewInv, ReviewTypeOK
    <2>2. /\ RegisterScreen.page = "register" /\ RegisterScreen.marks = Listed
          /\ RegisterScreen.status = "open"
        BY DEF RegisterScreen
    <2> QED
        BY <1>2, <2>1, <2>2 DEF ScreenSound, Carries, WasRead
<1>6. \A p \in Officers : screens'[p] = screens[p] \/ ScreenSound(p)'
    BY <1>1, <1>5 DEF ReviewInv, ReviewTypeOK
<1> QED
    BY <1>1, <1>4, <1>6, Quiet, Stays

\* The screen of a page: whatever it does not call missing is in the register.
LEMMA OpenScan ==
    ASSUME ReviewInv, NEW o \in Officers, NEW s \in ScanIds, Open(o, s)
    PROVE  ReviewInv'
<1>1. /\ s \in Recorded
      /\ screens' = [screens EXCEPT ![o] = ReviewScreen(s)]
      /\ UNCHANGED <<config, scans, register, saving, reading, changed>>
    BY ReviewAssumption DEF Open
<1>2. PICK scan \in ScanRow : scan = scans[s]
    BY <1>1 DEF Recorded, ReviewInv, ReviewTypeOK
<1>3. /\ scan.sheet \in Sheets /\ scan.sheet \in Printing /\ scan.status \in ScanStatus
    BY <1>2, ReviewAssumption DEF ScanRow
<1>4. PICK shown : shown = Proposed(scan)
    OBVIOUS
<1>5. shown \in Marking /\ \A m \in NamesOn(scan.sheet) : shown[m] # Null
    <2>1. ASSUME NEW m \in Members
          PROVE  ProposalFor(StateOf(scan, m), RecordedStatus(m)) \in Marks
        BY Proposals DEF ReviewInv
    <2>2. shown \in Marking
        BY <1>4, <2>1 DEF Proposed, Marking
    <2>3. NamesOn(scan.sheet) \subseteq Members
        BY <1>3, Names
    <2> QED
        BY <1>4, <2>1, <2>2, <2>3, ReviewAssumption DEF Proposed
<1>6. PICK missing : missing = PagesAwaiting \ {scan.sheet}
    OBVIOUS
<1>7. ReviewScreen(s) = [page |-> s, status |-> scan.status, missing |-> missing,
                         shown |-> shown, marks |-> shown]
    BY <1>2, <1>4, <1>6 DEF ReviewScreen
<1>8. ReviewScreen(s) \in Screen
    <2>1. missing \subseteq Printing
        BY <1>6 DEF PagesAwaiting
    <2> QED
        BY <1>3, <1>5, <1>7, <2>1 DEF Screen, Page
<1>9. ReviewTypeOK'
    BY <1>1, <1>8 DEF ReviewInv, ReviewTypeOK
<1>10. scan.status = "committed" => \A sheet \in Printing \ missing : InRegister(sheet)
    BY <1>1, <1>2, <1>6 DEF ReviewInv, CommitsRecorded, PagesAwaiting
<1>11. ScreenSound(o)'
    <2>1. /\ screens'[o].page = s /\ screens'[o].marks = shown
          /\ screens'[o].status = scan.status /\ screens'[o].missing = missing
        BY <1>1, <1>7 DEF ReviewInv, ReviewTypeOK
    <2>2. s # "register"
        BY ReviewAssumption
    <2>3. Carries(s, shown)'
        BY <1>1, <1>2, <1>5, <2>2 DEF Carries, Recorded, NamesOn
    <2>4. scan.status # "uploaded" => WasRead(s)'
        BY <1>1, <1>2 DEF WasRead
    <2>5. scan.status = "committed" => \A sheet \in Printing \ missing : InRegister(sheet)'
        BY <1>1, <1>10 DEF InRegister, NamesOn
    <2> QED
        BY <2>1, <2>2, <2>3, <2>4, <2>5 DEF ScreenSound, Carries, WasRead, InRegister
<1>12. \A p \in Officers : screens'[p] = screens[p] \/ ScreenSound(p)'
    BY <1>1, <1>11 DEF ReviewInv, ReviewTypeOK
<1> QED
    BY <1>1, <1>9, <1>12, Quiet, Stays

\* A mark changed on the screen is still a mark.
LEMMA MarkStep ==
    ASSUME ReviewInv, NEW o \in Officers,
           \/ \E m \in Members, mark \in Choices : Mark(o, m, mark)
           \/ \E status \in {"present", "absent"} : MarkAll(o, status)
    PROVE  ReviewInv'
<1>1. PICK old : old = screens[o]
    OBVIOUS
<1>2. PICK marks :
        /\ old # Null /\ screens' = [screens EXCEPT ![o].marks = marks]
        /\ changed < MaxMarks /\ changed' = changed + 1
        /\ UNCHANGED <<config, scans, register, saving, reading>>
        /\ \/ \E m \in Members, mark \in Marks :
                 old.shown[m] # Null /\ marks = [old.marks EXCEPT ![m] = mark]
           \/ old.page = "register" /\ marks \in [Members -> Marks]
    <2>1. ASSUME NEW m \in Members, NEW mark \in Choices, Mark(o, m, mark)
          PROVE  /\ old # Null
                 /\ screens' = [screens EXCEPT ![o].marks = [old.marks EXCEPT ![m] = mark]]
                 /\ changed < MaxMarks /\ changed' = changed + 1
                 /\ UNCHANGED <<config, scans, register, saving, reading>>
                 /\ mark \in Marks /\ old.shown[m] # Null
        BY <1>1, <2>1, ReviewAssumption DEF Mark, Ready
    <2>2. ASSUME NEW status \in {"present", "absent"}, MarkAll(o, status)
          PROVE  /\ old # Null
                 /\ screens' = [screens EXCEPT ![o].marks = [m \in Members |-> status]]
                 /\ changed < MaxMarks /\ changed' = changed + 1
                 /\ UNCHANGED <<config, scans, register, saving, reading>>
                 /\ old.page = "register" /\ [m \in Members |-> status] \in [Members -> Marks]
        BY <1>1, <2>2 DEF MarkAll, Ready, Marks
    <2> QED
        BY <2>1, <2>2
<1>3. old \in Screen /\ old.marks \in [Members -> Marks \cup {Null}]
    BY <1>1, <1>2 DEF ReviewInv, ReviewTypeOK, Screen, Marking
<1>4. PICK new : new = [old EXCEPT !.marks = marks]
    OBVIOUS
<1> DEFINE StillMarks ==
               /\ marks \in Marking
               /\ old.page = "register" /\ old.marks \in [Members -> Marks] =>
                     marks \in [Members -> Marks]
               /\ \A n \in Members : old.marks[n] # Null => marks[n] # Null
<1>5. StillMarks
    <2>1. ASSUME NEW m \in Members, NEW mark \in Marks,
                 marks = [old.marks EXCEPT ![m] = mark]
          PROVE  StillMarks
        BY <1>3, <2>1, ReviewAssumption DEF Marking
    <2>2. ASSUME marks \in [Members -> Marks] PROVE StillMarks
        BY <2>2, ReviewAssumption DEF Marking
    <2> QED
        BY <1>2, <2>1, <2>2
<1>6. /\ new \in Screen /\ new.marks = marks /\ new.page = old.page
      /\ new.status = old.status /\ new.missing = old.missing
    BY <1>3, <1>4, <1>5 DEF Screen
<1>7. screens' = [screens EXCEPT ![o] = new]
    BY <1>1, <1>2, <1>4
<1>8. ReviewTypeOK'
    BY <1>2, <1>6, <1>7, ReviewAssumption DEF ReviewInv, ReviewTypeOK
<1>9. ScreenSound(o)'
    <2>1. screens'[o] = new
        BY <1>7 DEF ReviewInv, ReviewTypeOK
    <2>2. /\ Carries(old.page, old.marks)
          /\ old.status # "uploaded" => WasRead(old.page)
          /\ old.page = "register" => old.status = "open"
          /\ old.status = "committed" =>
                \A sheet \in Printing \ old.missing : InRegister(sheet)
        BY <1>1, <1>2 DEF ReviewInv, ScreenSound
    <2>3. Carries(old.page, marks)
        <3>1. CASE old.page = "register"
            BY <1>5, <2>2, <3>1 DEF Carries
        <3>2. CASE old.page # "register"
            <4>1. old.page \in Recorded /\ scans[old.page].sheet \in Sheets
                BY <2>2, <3>2, ReviewAssumption
                   DEF Carries, Recorded, ReviewInv, ReviewTypeOK, ScanRow
            <4>2. NamesOn(scans[old.page].sheet) \subseteq Members
                BY <4>1, Names
            <4> QED
                BY <1>5, <2>2, <3>2, <4>2 DEF Carries
        <3> QED
            BY <3>1, <3>2
    <2>4. Carries(old.page, marks)'
        BY <1>2, <2>3 DEF Carries, Recorded, NamesOn
    <2>5. old.status # "uploaded" => WasRead(old.page)'
        BY <1>2, <2>2 DEF WasRead
    <2>6. old.status = "committed" =>
              \A sheet \in Printing \ old.missing : InRegister(sheet)'
        BY <1>2, <2>2 DEF InRegister, NamesOn
    <2> QED
        BY <1>6, <2>1, <2>2, <2>4, <2>5, <2>6 DEF ScreenSound, Carries, WasRead, InRegister
<1>10. \A p \in Officers : screens'[p] = screens[p] \/ ScreenSound(p)'
    BY <1>7, <1>9 DEF ReviewInv, ReviewTypeOK
<1> QED
    BY <1>2, <1>8, <1>10, Quiet, Stays

LEMMA SaveStep ==
    ASSUME ReviewInv, NEW o \in Officers, Save(o)
    PROVE  ReviewInv'
<1>1. PICK screen : screen = screens[o]
    OBVIOUS
<1>2. /\ screen # Null
      /\ screen.page # "register" => Recordable(screen.status)
      /\ saving' = [saving EXCEPT ![o] = [page |-> screen.page, entries |-> screen.marks]]
      /\ UNCHANGED <<config, scans, register, screens, reading, changed>>
    BY <1>1 DEF Save, Ready
<1>3. screen \in Screen
    BY <1>1, <1>2 DEF ReviewInv, ReviewTypeOK
<1>4. ReviewTypeOK'
    BY <1>2, <1>3 DEF ReviewInv, ReviewTypeOK, Screen, SaveBody
<1>5. Carries(screen.page, screen.marks) /\ WasRead(screen.page)
    BY <1>1, <1>2 DEF ReviewInv, ScreenSound, Recordable, WasRead
<1>6. Carries(screen.page, screen.marks)' /\ WasRead(screen.page)'
    BY <1>2, <1>5 DEF Carries, WasRead, Recorded, NamesOn
<1>7. saving'[o].page = screen.page /\ saving'[o].entries = screen.marks
    BY <1>2 DEF ReviewInv, ReviewTypeOK
<1>8. SaveSound(o)'
    BY <1>6, <1>7 DEF SaveSound, Carries, WasRead
<1>9. \A p \in Officers : saving'[p] = saving[p] \/ SaveSound(p)'
    BY <1>2, <1>8 DEF ReviewInv, ReviewTypeOK
<1> QED
    BY <1>2, <1>4, <1>9, Quiet, Stays

LEMMA RereadStep ==
    ASSUME ReviewInv, NEW o \in Officers, Reread(o)
    PROVE  ReviewInv'
<1>1. PICK s, limits : s = screens[o].page /\ limits = Thresholds
    OBVIOUS
<1>2. /\ screens[o] # Null /\ s # "register"
      /\ reading' = [reading EXCEPT ![o] = [scan |-> s, limits |-> limits]]
      /\ UNCHANGED <<config, scans, register, screens, saving, changed>>
    BY <1>1 DEF Reread, Ready
<1>3. s \in Recorded /\ s \in ScanIds
    BY <1>1, <1>2 DEF ReviewInv, ScreenSound, Carries, Recorded
<1>4. limits \in Limit /\ \E c \in Configs : limits = Limits(c)
    BY <1>1, LimitsInForce DEF Thresholds, ReviewInv, ReviewTypeOK
<1>5. ReviewTypeOK'
    BY <1>2, <1>3, <1>4 DEF ReviewInv, ReviewTypeOK, ReadBody
<1>6. reading'[o].scan = s /\ reading'[o].limits = limits
    BY <1>2 DEF ReviewInv, ReviewTypeOK
<1>7. ReadingSound(o)'
    BY <1>2, <1>3, <1>4, <1>6 DEF ReadingSound, Recorded
<1>8. \A p \in Officers : reading'[p] = reading[p] \/ ReadingSound(p)'
    BY <1>2, <1>7 DEF ReviewInv, ReviewTypeOK
<1> QED
    BY <1>2, <1>5, <1>8, Quiet, Stays

\* What fails leaves the scans, the register and the screen as they are.
LEMMA LosingStep ==
    ASSUME ReviewInv,
           \/ \E o \in Officers : ReadingFails(o) \/ SavingFails(o)
           \/ \E c \in Configs : Calibrate(c)
           \/ UNCHANGED reviewVars
    PROVE  ReviewInv'
<1>1. ReviewTypeOK'
    BY DEF ReadingFails, SavingFails, Calibrate, reviewVars, ReviewInv, ReviewTypeOK
<1>2. /\ UNCHANGED <<scans, register>>
      /\ \A o \in Officers : /\ reading'[o] \in {reading[o], Null}
                             /\ saving'[o] \in {saving[o], Null}
                             /\ screens'[o] = screens[o]
    BY DEF ReadingFails, SavingFails, Calibrate, reviewVars, ReviewInv, ReviewTypeOK
<1> QED
    BY <1>1, <1>2, Quiet, Stays

LEMMA PhotographStep ==
    ASSUME ReviewInv, NEW o \in Officers, NEW s \in ScanIds, NEW sheet \in Printing,
           NEW shot \in Shots, TakePhotograph(o, s, sheet, shot)
    PROVE  ReviewInv'
<1>1. PICK limits : limits = Thresholds
    OBVIOUS
<1>2. /\ scans[s] = Null
      /\ scans' = [scans EXCEPT ![s] = NewScan(sheet, shot)]
      /\ reading' = [reading EXCEPT ![o] = [scan |-> s, limits |-> limits]]
      /\ screens' = [screens EXCEPT ![o] = Null]
      /\ UNCHANGED <<config, register, saving, changed>>
    BY <1>1 DEF TakePhotograph
<1>3. limits \in Limit /\ \E c \in Configs : limits = Limits(c)
    BY <1>1, LimitsInForce DEF Thresholds, ReviewInv, ReviewTypeOK
<1>4. NewScan(sheet, shot) \in ScanRow /\ NewScan(sheet, shot).status = "uploaded"
    <2>1. <<>> \in Seq(CellState)
        OBVIOUS
    <2> QED
        BY <2>1 DEF NewScan, ScanRow, ScanStatus
<1>5. ReviewTypeOK'
    BY <1>2, <1>3, <1>4 DEF ReviewInv, ReviewTypeOK, ReadBody
<1>6. /\ Recorded' = Recorded \cup {s} /\ s \notin Recorded
      /\ scans'[s].status = "uploaded"
      /\ \A t \in Recorded : scans'[t] = scans[t]
    BY <1>2, <1>4, NullAssumption DEF ReviewInv, ReviewTypeOK, Recorded
<1>7. Grows
    BY <1>2, <1>6 DEF Grows, Recorded
<1>8. ReadSound' /\ CommitsRecorded'
    BY <1>2, <1>6 DEF ReviewInv, ReadSound, CommitsRecorded, InRegister
<1>9. reading'[o].scan = s /\ reading'[o].limits = limits
    BY <1>2 DEF ReviewInv, ReviewTypeOK
<1>10. ReadingSound(o)'
    BY <1>3, <1>6, <1>9 DEF ReadingSound
<1>11. \A p \in Officers : /\ reading'[p] = reading[p] \/ ReadingSound(p)'
                           /\ saving'[p] = saving[p]
                           /\ screens'[p] \in {screens[p], Null}
    BY <1>2, <1>10 DEF ReviewInv, ReviewTypeOK
<1> QED
    BY <1>5, <1>7, <1>8, <1>11, Stays

\* A stored reading is of the page, and leaves no scan unread.
LEMMA ReadingStep ==
    ASSUME ReviewInv, NEW o \in Officers, StoreReading(o)
    PROVE  ReviewInv'
<1>1. PICK s, limits : s = reading[o].scan /\ limits = reading[o].limits
    OBVIOUS
<1>2. reading[o] # Null /\ s \in Recorded /\ s \in ScanIds
      /\ limits \in Limit /\ \E c \in Configs : limits = Limits(c)
    BY <1>1 DEF StoreReading, ReviewInv, ReviewTypeOK, ReadBody, ReadingSound
<1>3. PICK scan \in ScanRow : scan = scans[s]
    BY <1>2 DEF Recorded, ReviewInv, ReviewTypeOK
<1>4. PICK result : result = Detect(scan.shot, scan.sheet, limits)
    OBVIOUS
<1>5. scan.shot \in Shots /\ scan.sheet \in Printing /\ scan.sheet \in Sheets
    BY ReviewAssumption DEF ScanRow
<1>6. /\ result.status \in {"detected", "rejected"} /\ result.rows \in Seq(CellState)
      /\ result.status = "detected" =>
            /\ Shot[scan.shot].sheet = scan.sheet
            /\ result.rows = Measured(scan.shot, Len(Manifest[scan.sheet]), limits)
    BY <1>2, <1>4, <1>5, Answers
<1>7. PICK new : new = [scan EXCEPT !.status = result.status, !.rows = result.rows,
                                    !.overrides = {}]
    OBVIOUS
<1>8. /\ new \in ScanRow /\ new.sheet = scan.sheet /\ new.shot = scan.shot
      /\ new.status = result.status /\ new.rows = result.rows
    <2>1. result.status \in ScanStatus
        BY <1>6 DEF ScanStatus
    <2> QED
        BY <1>6, <1>7, <2>1 DEF ScanRow
<1>9. /\ scans' = [scans EXCEPT ![s] = new]
      /\ screens' = [screens EXCEPT ![o] = Null] \/ screens' = screens
      /\ reading' = [reading EXCEPT ![o] = Null]
      /\ UNCHANGED <<config, register, saving, changed>>
    BY <1>1, <1>3, <1>4, <1>7 DEF StoreReading, Answered
<1>10. ReviewTypeOK'
    BY <1>8, <1>9 DEF ReviewInv, ReviewTypeOK
<1>11. /\ Recorded' = Recorded /\ scans'[s] = new
       /\ \A t \in ScanIds \ {s} : scans'[t] = scans[t]
    BY <1>2, <1>8, <1>9, NullAssumption DEF ReviewInv, ReviewTypeOK, Recorded
<1>12. Grows
    BY <1>3, <1>6, <1>8, <1>9, <1>11, NullAssumption DEF Grows, Recorded
<1>13. ReadSound'
    <2>1. ASSUME new.status \in {"detected", "committed"}
          PROVE  /\ Shot[new.shot].sheet = new.sheet
                 /\ \E c \in Configs :
                       new.rows = Measured(new.shot, Len(Manifest[new.sheet]), Limits(c))
        BY <1>2, <1>6, <1>8, <2>1
    <2> QED
        BY <1>11, <2>1 DEF ReviewInv, ReadSound, Recorded
<1>14. CommitsRecorded'
    BY <1>6, <1>8, <1>9, <1>11 DEF ReviewInv, CommitsRecorded, InRegister, Recorded
<1>15. \A p \in Officers : /\ reading'[p] \in {reading[p], Null}
                           /\ saving'[p] = saving[p]
                           /\ screens'[p] \in {screens[p], Null}
    BY <1>9 DEF ReviewInv, ReviewTypeOK
<1> QED
    BY <1>10, <1>12, <1>13, <1>14, <1>15, Stays

\* A commit was sent from a screen of the scan that was read: every name on the
\* page is decided, so that all of them are in the register afterwards.
LEMMA CommitFacts ==
    ASSUME ReviewInv, NEW o \in Officers, CommitScan(o),
           NEW s, s = saving[o].page, Committable(scans[s])
    PROVE  /\ s \in ScanIds /\ s \in Recorded
           /\ scans[s] \in ScanRow /\ scans[s].status = "detected"
           /\ saving[o].entries \in Marking
           /\ \A m \in NamesOn(scans[s].sheet) : m \in Decided(saving[o].entries)
<1>1. saving[o] # Null /\ s # "register"
    BY DEF CommitScan
<1>2. saving[o] \in SaveBody /\ SaveSound(o)
    BY <1>1 DEF ReviewInv, ReviewTypeOK
<1>3. s \in Recorded /\ s \in ScanIds /\ scans[s].status # "uploaded"
      /\ \A m \in NamesOn(scans[s].sheet) : saving[o].entries[m] # Null
    BY <1>1, <1>2 DEF SaveSound, Carries, WasRead, Recorded
<1>4. scans[s] \in ScanRow
    BY <1>3 DEF ReviewInv, ReviewTypeOK, Recorded
<1>5. scans[s].status = "detected"
    BY <1>3, <1>4 DEF ScanRow, ScanStatus, Committable
<1>6. NamesOn(scans[s].sheet) \subseteq Members
    BY <1>4, Names, ReviewAssumption DEF ScanRow
<1> QED
    BY <1>2, <1>3, <1>4, <1>5, <1>6 DEF SaveBody, Decided

LEMMA CommitStep ==
    ASSUME ReviewInv, NEW o \in Officers, CommitScan(o)
    PROVE  ReviewInv'
<1>1. PICK s, entries : s = saving[o].page /\ entries = saving[o].entries
    OBVIOUS
<1>2. saving' = [saving EXCEPT ![o] = Null] /\ UNCHANGED <<config, reading, changed>>
    BY DEF CommitScan
<1>3. CASE ~Committable(scans[s])
    <2>1. UNCHANGED <<scans, register, screens>>
        BY <1>1, <1>3 DEF CommitScan
    <2>2. ReviewTypeOK' /\ \A p \in Officers : saving'[p] \in {saving[p], Null}
        BY <1>2, <2>1 DEF ReviewInv, ReviewTypeOK
    <2> QED
        BY <1>2, <2>1, <2>2, Quiet, Stays
<1>4. CASE Committable(scans[s])
    <2>1. /\ s \in ScanIds /\ s \in Recorded /\ entries \in Marking
          /\ \A m \in NamesOn(scans[s].sheet) : m \in Decided(entries)
        BY <1>1, <1>4, CommitFacts
    <2>2. PICK scan \in ScanRow : scan = scans[s] /\ scan.status = "detected"
        BY <1>1, <1>4, CommitFacts
    <2>3. PICK new : new = Committed(scan, Decided(entries), entries)
        OBVIOUS
    <2>4. /\ new \in ScanRow /\ new.status = "committed" /\ new.sheet = scan.sheet
          /\ new.shot = scan.shot /\ new.rows = scan.rows
        <3>1. Overrides(scan, Decided(entries), entries) \subseteq Members
            BY DEF Overrides, Decided
        <3> QED
            BY <2>3, <3>1 DEF Committed, ScanRow, ScanStatus
    <2>5. /\ register' = [m \in Members |-> IF m \in Decided(entries)
                             THEN [mark |-> entries[m], scan |-> s] ELSE register[m]]
          /\ scans' = [scans EXCEPT ![s] = new]
          /\ screens' = [screens EXCEPT ![o] = Null] \/ UNCHANGED screens
        BY <1>1, <1>4, <2>2, <2>3 DEF CommitScan, Answered
    <2>6. \A m \in Decided(entries) : [mark |-> entries[m], scan |-> s] \in RegisterRow
        BY <2>1 DEF Decided, Marking, RegisterRow
    <2>7. /\ register' \in [Members -> RegisterRow \cup {Null}]
          /\ \A m \in Members : register[m] # Null \/ m \in Decided(entries) => register'[m] # Null
        BY <2>5, <2>6, NullAssumption DEF ReviewInv, ReviewTypeOK
    <2>8. ReviewTypeOK'
        BY <1>2, <2>4, <2>5, <2>7 DEF ReviewInv, ReviewTypeOK
    <2>9. /\ Recorded' = Recorded /\ scans'[s] = new
          /\ \A t \in ScanIds \ {s} : scans'[t] = scans[t]
        BY <2>1, <2>4, <2>5, NullAssumption DEF ReviewInv, ReviewTypeOK, Recorded
    <2>10. Grows
        BY <2>2, <2>4, <2>7, <2>9, NullAssumption DEF Grows, Recorded
    <2>11. ReadSound'
        <3>1. /\ Shot[new.shot].sheet = new.sheet
              /\ \E c \in Configs :
                    new.rows = Measured(new.shot, Len(Manifest[new.sheet]), Limits(c))
            BY <2>1, <2>2, <2>4 DEF ReviewInv, ReadSound
        <3> QED
            BY <2>9, <3>1 DEF ReviewInv, ReadSound, Recorded
    <2>12. CommitsRecorded'
        <3>1. \A m \in NamesOn(new.sheet) : m \in Members /\ register'[m] # Null
            BY <2>1, <2>2, <2>4, <2>7 DEF Decided
        <3>2. ASSUME NEW t \in Recorded, t # s, scans[t].status = "committed",
                     NEW m \in NamesOn(scans[t].sheet)
              PROVE  register'[m] # Null
            <4>1. scans[t].sheet \in Sheets
                BY <3>2, ReviewAssumption DEF ReviewInv, ReviewTypeOK, Recorded, ScanRow
            <4>2. m \in Members /\ register[m] # Null
                BY <3>2, <4>1, Names DEF ReviewInv, CommitsRecorded, InRegister
            <4> QED
                BY <2>7, <4>2
        <3> QED
            BY <2>9, <3>1, <3>2 DEF CommitsRecorded, InRegister, NamesOn, Recorded
    <2>13. \A p \in Officers : /\ saving'[p] \in {saving[p], Null}
                               /\ screens'[p] \in {screens[p], Null}
        BY <1>2, <2>5 DEF ReviewInv, ReviewTypeOK
    <2> QED
        BY <1>2, <2>8, <2>10, <2>11, <2>12, <2>13, Stays
<1> QED
    BY <1>3, <1>4

LEMMA SaveRegisterStep ==
    ASSUME ReviewInv, NEW o \in Officers, SaveRegister(o)
    PROVE  ReviewInv'
<1>1. PICK entries : entries = saving[o].entries
    OBVIOUS
<1>2. /\ saving[o] # Null /\ saving[o].page = "register"
      /\ register' = [m \in Members |->
             [mark |-> entries[m],
              scan |-> IF register[m] = Null THEN Null ELSE register[m].scan]]
      /\ screens' = [screens EXCEPT ![o] = Null] \/ UNCHANGED screens
      /\ saving' = [saving EXCEPT ![o] = Null]
      /\ UNCHANGED <<config, scans, reading, changed>>
    BY <1>1 DEF SaveRegister, Answered
<1>3. entries \in [Members -> Marks]
    BY <1>1, <1>2 DEF ReviewInv, SaveSound, Carries
<1>4. \A m \in Members : register'[m] \in RegisterRow
    BY <1>2, <1>3 DEF RegisterRow, ReviewInv, ReviewTypeOK
<1>5. register' \in [Members -> RegisterRow \cup {Null}] /\ \A m \in Members : register'[m] # Null
    BY <1>2, <1>4, NullAssumption
<1>6. ReviewTypeOK'
    BY <1>2, <1>5 DEF ReviewInv, ReviewTypeOK
<1>7. Grows /\ ReadSound'
    BY <1>2, <1>5 DEF Grows, ReviewInv, ReadSound, Recorded
<1>8. CommitsRecorded'
    <2>1. ASSUME NEW t \in Recorded, NEW m \in NamesOn(scans[t].sheet) PROVE register'[m] # Null
        <3>1. scans[t].sheet \in Sheets
            BY ReviewAssumption DEF ReviewInv, ReviewTypeOK, Recorded, ScanRow
        <3> QED
            BY <1>5, <3>1, Names
    <2> QED
        BY <1>2, <2>1 DEF CommitsRecorded, InRegister, NamesOn, Recorded
<1>9. \A p \in Officers : /\ saving'[p] \in {saving[p], Null}
                          /\ screens'[p] \in {screens[p], Null}
    BY <1>2 DEF ReviewInv, ReviewTypeOK
<1> QED
    BY <1>2, <1>6, <1>7, <1>8, <1>9, Stays

LEMMA ReviewStep == ASSUME ReviewInv, [ReviewNext]_reviewVars PROVE ReviewInv'
<1>1. ASSUME NEW o \in Officers, OnScreen(o) PROVE ReviewInv'
    BY <1>1, OpenRegister, OpenScan, MarkStep, SaveStep, RereadStep DEF OnScreen, Page
<1>2. ASSUME NEW o \in Officers, AtTheServer(o) PROVE ReviewInv'
    BY <1>2, PhotographStep, ReadingStep, CommitStep, SaveRegisterStep, LosingStep DEF AtTheServer
<1> QED
    BY <1>1, <1>2, LosingStep DEF ReviewNext

\* The inductive invariant of the review: what was read is the page itself, what a
\* screen or a save carries has a mark for every name, and what a screen does not
\* call missing is in the register.  (scans.ts:225-290, 325-420, 573-640)
THEOREM ReviewInvariant == ReviewSpec => []ReviewInv
<1>1. ReviewInv /\ [ReviewNext]_reviewVars => ReviewInv'
    BY ReviewStep
<1> QED
    BY ReviewStarts, <1>1, PTL DEF ReviewSpec

\* Types of the scans, of the register and of what a browser has before it.
\* (scans.ts:24-57, page.tsx:86-115)
THEOREM ReviewTypes == ReviewSpec => []ReviewTypeOK
<1>1. ReviewInv => ReviewTypeOK
    BY DEF ReviewInv
<1> QED
    BY ReviewInvariant, <1>1, PTL

\* For any number of pages, officers and readings, the screen of a recorded page
\* that calls no other page missing is right: everyone printed for the meeting is
\* in the register.  (scans.ts:438-456, 573-640)
THEOREM PagesAreNotOverlooked == ReviewSpec => []NoPageOverlooked
<1>1. ReviewInv => NoPageOverlooked
    BY DEF ReviewInv, ScreenSound, NoPageOverlooked, Ready, InRegister
<1> QED
    BY ReviewInvariant, <1>1, PTL

\* Only a commit makes a scan committed.
LEMMA BecomesCommitted ==
    ASSUME ReviewInv, [ReviewNext]_reviewVars, NEW s \in ScanIds, Becomes(s, "committed")
    PROVE  \E o \in Officers :
              /\ CommitScan(o) /\ s = saving[o].page /\ Committable(scans[s])
              /\ scans'[s] = Committed(scans[s], Decided(saving[o].entries), saving[o].entries)
              /\ register' = [m \in Members |-> IF m \in Decided(saving[o].entries)
                                 THEN [mark |-> saving[o].entries[m], scan |-> s]
                                 ELSE register[m]]
<1>1. scans'[s] # scans[s] /\ s \in Recorded /\ scans'[s].status = "committed"
    BY DEF Becomes
<1>2. ASSUME NEW o \in Officers, NEW t \in ScanIds, NEW sheet, NEW shot,
             TakePhotograph(o, t, sheet, shot)
      PROVE  FALSE
    BY <1>1, <1>2 DEF TakePhotograph, Recorded, ReviewInv, ReviewTypeOK
<1>3. ASSUME NEW o \in Officers, StoreReading(o) PROVE FALSE
    <2>1. PICK t, limits : t = reading[o].scan /\ limits = reading[o].limits
        OBVIOUS
    <2>2. t \in Recorded /\ t \in ScanIds /\ limits \in Limit
        BY <1>3, <2>1 DEF StoreReading, ReviewInv, ReviewTypeOK, ReadBody, ReadingSound
    <2>3. PICK scan \in ScanRow : scan = scans[t]
        BY <2>2 DEF Recorded, ReviewInv, ReviewTypeOK
    <2>4. PICK result : result = Detect(scan.shot, scan.sheet, limits)
        OBVIOUS
    <2>5. result.status \in {"detected", "rejected"}
        BY <2>2, <2>3, <2>4, Answers, ReviewAssumption DEF ScanRow
    <2>6. scans' = [scans EXCEPT ![t] = [scan EXCEPT !.status = result.status,
                                           !.rows = result.rows, !.overrides = {}]]
        BY <1>3, <2>1, <2>3, <2>4 DEF StoreReading
    <2>7. s = t /\ scans'[s].status = result.status
        BY <1>1, <2>2, <2>3, <2>6 DEF ReviewInv, ReviewTypeOK, ScanRow
    <2> QED
        BY <1>1, <2>5, <2>7
<1>4. PICK o \in Officers : CommitScan(o)
    BY <1>1, <1>2, <1>3
       DEF ReviewNext, OnScreen, AtTheServer, Open, Mark, MarkAll, Save, Reread,
           ReadingFails, SaveRegister, SavingFails, Calibrate, reviewVars
<1>5. s = saving[o].page /\ Committable(scans[s])
    BY <1>1, <1>4 DEF CommitScan, ReviewInv, ReviewTypeOK
<1> QED
    BY <1>4, <1>5 DEF CommitScan, ReviewInv, ReviewTypeOK

LEMMA ReadBeforeCommitted ==
    ASSUME ReviewInv, [ReviewNext]_reviewVars, NEW s \in ScanIds, Becomes(s, "committed")
    PROVE  scans[s].rows # <<>>
<1>1. PICK o \in Officers : CommitScan(o) /\ s = saving[o].page /\ Committable(scans[s])
    BY BecomesCommitted
<1>2. s \in Recorded /\ scans[s] \in ScanRow /\ scans[s].status = "detected"
    BY <1>1, CommitFacts
<1>3. PICK c \in Configs :
        scans[s].rows = Measured(scans[s].shot, Len(Manifest[scans[s].sheet]), Limits(c))
    BY <1>2 DEF ReviewInv, ReadSound
<1>4. Limits(c) \in Limit /\ scans[s].shot \in Shots /\ scans[s].sheet \in Sheets
    BY <1>2, LimitsInForce, ReviewAssumption DEF ScanRow
<1> QED
    BY <1>3, <1>4, Reads

\* No page is committed before it was read, whatever screen the commit came from.
\* (scans.ts:495-498, page.tsx:281-290)
THEOREM ReadThenCommitted == ReviewSpec => OnlyReadPagesAreCommitted
<1>1. ReviewInv /\ [ReviewNext]_reviewVars =>
          [\A s \in ScanIds : Becomes(s, "committed") => scans[s].rows # <<>>]_reviewVars
    BY ReadBeforeCommitted
<1> QED
    BY ReviewInvariant, <1>1, PTL DEF ReviewSpec, OnlyReadPagesAreCommitted

\* The cell of a member is the box beside their name.
LEMMA OwnBox ==
    ASSUME ReviewInv, NEW s \in Recorded, scans[s].status = "detected",
           NEW m \in NamesOn(scans[s].sheet)
    PROVE  \E c \in Configs :
              /\ StateOf(scans[s], m) = Cell(Shot[scans[s].shot].ink[m], Limits(c))
              /\ Limits(c) \in Limit /\ Shot[scans[s].shot].ink[m] \in Ink
<1>1. PICK p, sheet, rows :
          p = scans[s].shot /\ sheet = scans[s].sheet /\ rows = scans[s].rows
    OBVIOUS
<1>2. p \in Shots /\ sheet \in Sheets
    BY <1>1, ReviewAssumption DEF ReviewInv, ReviewTypeOK, Recorded, ScanRow
<1>3. PICK c \in Configs :
          Shot[p].sheet = sheet /\ rows = Measured(p, Len(Manifest[sheet]), Limits(c))
    BY <1>1 DEF ReviewInv, ReadSound
<1>4. PICK i : i = RowOf(sheet, m)
    OBVIOUS
<1>5. i \in 1 .. Len(Manifest[sheet]) /\ Manifest[sheet][i] = m /\ m \in Members
    BY <1>1, <1>2, <1>4, Names
<1>6. Limits(c) \in Limit
    BY LimitsInForce
<1>7. i \in DOMAIN rows /\ rows[i] = Cell(InkAt(p, i), Limits(c))
    BY <1>2, <1>3, <1>5, <1>6, Reads
<1>8. InkAt(p, i) = Shot[p].ink[m]
    BY <1>2, <1>3, <1>5, Names DEF InkAt
<1>9. Shot[p].ink[m] \in Ink
    BY <1>2, <1>5, ReaderAssumption DEF Photograph
<1>10. StateOf(scans[s], m) = rows[i]
    BY <1>1, <1>4, <1>7 DEF StateOf
<1> QED
    BY <1>1, <1>6, <1>7, <1>8, <1>9, <1>10

LEMMA MarksBornOut ==
    ASSUME ReviewInv, [ReviewNext]_reviewVars, NEW s \in ScanIds, Becomes(s, "committed"),
           NEW m \in NamesOn(scans[s].sheet) \ scans'[s].overrides, register[m] = Null
    PROVE  BornOut(m, scans[s].shot, register'[m].mark)
<1>1. PICK o \in Officers :
        /\ CommitScan(o) /\ s = saving[o].page /\ Committable(scans[s])
        /\ scans'[s] = Committed(scans[s], Decided(saving[o].entries), saving[o].entries)
        /\ register' = [n \in Members |-> IF n \in Decided(saving[o].entries)
                           THEN [mark |-> saving[o].entries[n], scan |-> s]
                           ELSE register[n]]
    BY BecomesCommitted
<1>2. PICK entries, shot : entries = saving[o].entries /\ shot = scans[s].shot
    OBVIOUS
<1>3. /\ s \in Recorded /\ scans[s] \in ScanRow /\ scans[s].status = "detected"
      /\ m \in Decided(entries) /\ m \in Members
    BY <1>1, <1>2, CommitFacts DEF Decided
<1>4. register'[m].mark = entries[m]
    BY <1>1, <1>2, <1>3
<1>5. scans'[s].overrides = Overrides(scans[s], Decided(entries), entries)
    BY <1>1, <1>2, <1>3 DEF Committed, ScanRow
<1>6. ProposalFor(StateOf(scans[s], m), RecordedStatus(m)) = StatusOf(entries[m])
    BY <1>3, <1>5 DEF Overrides
<1>7. RecordedStatus(m) = Null /\ Null # "apology"
    BY ReviewAssumption DEF RecordedStatus, Marks
<1>8. PICK c \in Configs :
        /\ StateOf(scans[s], m) = Cell(Shot[shot].ink[m], Limits(c))
        /\ Limits(c) \in Limit /\ Shot[shot].ink[m] \in Ink
    BY <1>2, <1>3, OwnBox
<1>9. PICK ink \in Ink, limits \in Limit : ink = Shot[shot].ink[m] /\ limits = Limits(c)
    BY <1>8
<1>10. ASSUME entries[m] = "present" PROVE ink >= limits.high
    <2>1. ProposalFor(Cell(ink, limits), Null) = "present"
        BY <1>6, <1>7, <1>8, <1>9, <1>10 DEF StatusOf
    <2>2. Cell(ink, limits) = "marked"
        BY <1>7, <2>1 DEF ProposalFor
    <2> QED
        BY <2>2 DEF Cell
<1>11. ASSUME entries[m] = "absent" PROVE ink < limits.high
    <2>1. ProposalFor(Cell(ink, limits), Null) = "absent"
        BY <1>6, <1>7, <1>8, <1>9, <1>11 DEF StatusOf
    <2>2. Cell(ink, limits) # "marked"
        BY <1>7, <2>1 DEF ProposalFor
    <2>3. ink \in Nat /\ limits.high \in Nat
        BY DEF Ink, Limit
    <2>4. ASSUME ink >= limits.high PROVE Cell(ink, limits) = "marked"
        BY <2>3, <2>4 DEF Cell
    <2> QED
        BY <2>2, <2>3, <2>4
<1> QED
    BY <1>2, <1>4, <1>9, <1>10, <1>11 DEF BornOut

\* Whoever a commit newly records, and does not list as corrected by hand, is
\* marked by their own box, as some limits that were in force read it.
\* (detect.py:371-416, scans.ts:317-390, 573-591)
THEOREM MarksAreTheirOwn == ReviewSpec => UncorrectedMarksAreTheirOwn
<1>1. ReviewInv /\ [ReviewNext]_reviewVars =>
          [\A s \in ScanIds : Becomes(s, "committed") =>
              \A m \in NamesOn(scans[s].sheet) \ scans'[s].overrides :
                 register[m] = Null => BornOut(m, scans[s].shot, register'[m].mark)]_reviewVars
    BY MarksBornOut
<1> QED
    BY ReviewInvariant, <1>1, PTL DEF ReviewSpec, UncorrectedMarksAreTheirOwn
=============================================================================
