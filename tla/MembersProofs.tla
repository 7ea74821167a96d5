--------------------------- MODULE MembersProofs ----------------------------
(***************************************************************************)
(* Proofs about what is on a member's record beside the member: the terms  *)
(* of office (Offices) and the photograph (Photographs), two components    *)
(* that share nothing, for every value of their constants.                 *)
(***************************************************************************)
EXTENDS Offices, Photographs, TLAPS

-----------------------------------------------------------------------------
(***************************************************************************)
(* Terms of office.                                                        *)
(***************************************************************************)
\* A term being closed is sitting, and only one request is closing it.
ClosingSits ==
    \A r \in Requests : Doing(r, "close") =>
        /\ requests[r].term \in Sitting
        /\ \A q \in Requests :
              Doing(q, "close") /\ requests[q].term = requests[r].term => q = r

OfficeInv == TypeOK /\ OneSittingHolder /\ ClosingSits

\* A new term is a sitting one, and an ended term is not.
LEMMA NewTermSits ==
    ASSUME TypeOK, NEW r \in Requests, Doing(r, "open") \/ Doing(r, "handoff")
    PROVE  /\ NewTerm(requests[r]) \in Term
           /\ NewTerm(requests[r]).end = None
           /\ NewTerm(requests[r]).post = requests[r].post
  BY DEF TypeOK, Doing, Request, NewTerm, Term

LEMMA EndedTerm ==
    ASSUME NEW term \in Term, NEW day \in Days
    PROVE  /\ Ended(term, day) \in Term
           /\ Ended(term, day).end = day
           /\ day # None
  BY OfficeAssumption DEF Ended, Term

\* What a step that writes the terms does to each of them.
LEMMA OpenSteps ==
    ASSUME OfficeInv, NEW r \in Requests, OpenTerm(r)
    PROVE  \/ UNCHANGED terms
           \/ \E new \in Terms \ Opened :
                /\ terms' = [terms EXCEPT ![new] = NewTerm(requests[r])]
                /\ Holding(requests[r].post) = {}
  BY DEF OpenTerm, Vacant

LEMMA OfficeStep ==
    ASSUME OfficeInv, [Next]_vars
    PROVE  /\ OfficeInv'
           /\ \A t \in Opened \ Sitting : terms'[t] = terms[t]
<1> USE OfficeRowAssumption
<1> DEFINE Stand == \A t \in Opened \ Sitting : terms'[t] = terms[t]
<1>1. ASSUME NEW r \in Requests, NEW op \in {"open", "handoff"}, NEW m \in Members,
             NEW post \in Posts, NEW day \in Days, NEW excused \in BOOLEAN,
             AskOpen(r, op, m, post, day, excused)
      PROVE  OfficeInv' /\ Stand
  <2>1. requests'[r] = [op |-> op, member |-> m, post |-> post, day |-> day,
                        excused |-> excused]
    BY <1>1 DEF AskOpen, OfficeInv, TypeOK
  <2>2. UNCHANGED terms /\ \A q \in Requests \ {r} : requests'[q] = requests[q]
    BY <1>1 DEF AskOpen, OfficeInv, TypeOK
  <2>3. TypeOK'
    BY <1>1 DEF AskOpen, OfficeInv, TypeOK, Request
  <2>4. ~Doing(r, "close")'
    BY <2>1 DEF Doing
  <2>5. ClosingSits'
    BY <2>2, <2>4 DEF OfficeInv, ClosingSits, Doing, Sitting, Opened
  <2>6. OneSittingHolder'
    BY <2>2 DEF OfficeInv, OneSittingHolder, Sitting, Opened
  <2>7. QED  BY <2>2, <2>3, <2>5, <2>6 DEF OfficeInv
<1>2. ASSUME NEW r \in Requests, NEW t \in Terms, NEW day \in Days, AskClose(r, t, day)
      PROVE  OfficeInv' /\ Stand
  <2>1. requests'[r] = [op |-> "close", term |-> t, day |-> day]
    BY <1>2 DEF AskClose, OfficeInv, TypeOK
  <2>2. UNCHANGED terms /\ \A q \in Requests \ {r} : requests'[q] = requests[q]
    BY <1>2 DEF AskClose, OfficeInv, TypeOK
  <2>3. TypeOK'
    BY <1>2 DEF AskClose, OfficeInv, TypeOK, Request
  <2>4. t \in Sitting /\ \A q \in Requests : ~(Doing(q, "close") /\ requests[q].term = t)
    BY <1>2 DEF AskClose, Locked, Doing
  <2>5. ClosingSits'
    BY <2>1, <2>2, <2>4 DEF OfficeInv, ClosingSits, Doing, Sitting, Opened
  <2>6. OneSittingHolder'
    BY <2>2 DEF OfficeInv, OneSittingHolder, Sitting, Opened
  <2>7. QED  BY <2>2, <2>3, <2>5, <2>6 DEF OfficeInv
<1>3. ASSUME NEW r \in Requests, Finish(r), terms' \in [Terms -> Term \cup {None}],
             \A t \in Sitting :
                t \in Sitting' \/ (\A q \in Requests \ {r} :
                                      ~(Doing(q, "close") /\ requests[q].term = t))
      PROVE  TypeOK' /\ ClosingSits'
  <2>1. requests'[r] = None /\ \A q \in Requests \ {r} : requests'[q] = requests[q]
    BY <1>3 DEF Finish, OfficeInv, TypeOK
  <2>2. TypeOK'
    BY <1>3 DEF Finish, OfficeInv, TypeOK
  <2>3. ClosingSits'
    BY <1>3, <2>1 DEF OfficeInv, ClosingSits, Doing
  <2>4. QED  BY <2>2, <2>3
<1>4. ASSUME NEW r \in Requests, OpenTerm(r)
      PROVE  OfficeInv' /\ Stand
  <2>1. Finish(r)
    BY <1>4 DEF OpenTerm
  <2>2. CASE UNCHANGED terms
    BY <1>3, <2>1, <2>2 DEF OfficeInv, TypeOK, OneSittingHolder, Sitting, Opened
  <2>3. ASSUME NEW new \in Terms \ Opened,
               terms' = [terms EXCEPT ![new] = NewTerm(requests[r])],
               Holding(requests[r].post) = {}
        PROVE  OfficeInv' /\ Stand
    <3>1. NewTerm(requests[r]) \in Term /\ NewTerm(requests[r]).post = requests[r].post
      BY <1>4, NewTermSits DEF OpenTerm, OfficeInv
    <3>2. terms'[new] = NewTerm(requests[r]) /\ \A t \in Terms \ {new} : terms'[t] = terms[t]
      BY <2>3 DEF OfficeInv, TypeOK
    <3>3. Stand /\ terms' \in [Terms -> Term \cup {None}]
      BY <2>3, <3>1, <3>2 DEF OfficeInv, TypeOK, Opened
    <3>4. \A t \in Sitting : t \in Sitting' /\ terms'[t] = terms[t]
      BY <3>2 DEF Sitting, Opened
    <3>5. \A t \in Sitting' : t = new \/ t \in Sitting
      BY <3>2 DEF Sitting, Opened
    <3>6. OneSittingHolder'
      BY <2>3, <3>1, <3>2, <3>4, <3>5 DEF OfficeInv, OneSittingHolder, Holding
    <3>7. QED  BY <1>3, <2>1, <3>3, <3>4, <3>6 DEF OfficeInv
  <2>4. QED  BY <1>4, <2>2, <2>3, OpenSteps
<1>5. ASSUME NEW r \in Requests, HandOver(r)
      PROVE  OfficeInv' /\ Stand
  <2> DEFINE q == requests[r]
             outgoing == Holding(q.post)
  <2>1. Finish(r) /\ \A t \in outgoing : ~Locked(t)
    BY <1>5 DEF HandOver
  <2>2. CASE UNCHANGED terms
    BY <1>3, <2>1, <2>2 DEF OfficeInv, TypeOK, OneSittingHolder, Sitting, Opened
  <2>3. ASSUME NEW new \in Terms \ Opened,
               terms' = [t \in Terms |-> CASE t = new -> NewTerm(q)
                                          [] t \in outgoing -> Ended(terms[t], q.day)
                                          [] OTHER -> terms[t]]
        PROVE  OfficeInv' /\ Stand
    <3>1. /\ NewTerm(q) \in Term
          /\ NewTerm(q).end = None
          /\ NewTerm(q).post = q.post
          /\ q.day \in Days
      BY <1>5, NewTermSits DEF HandOver, OfficeInv, TypeOK, Doing, Request
    <3>2. \A t \in outgoing : t \in Sitting /\ terms[t] \in Term
      BY DEF Holding, Sitting, Opened, OfficeInv, TypeOK
    <3>3. /\ terms'[new] = NewTerm(q)
          /\ \A t \in outgoing : terms'[t] = Ended(terms[t], q.day)
          /\ \A t \in Terms \ (outgoing \cup {new}) : terms'[t] = terms[t]
      BY <2>3, <3>2 DEF Sitting, Opened
    <3>4. \A t \in outgoing : Ended(terms[t], q.day) \in Term /\ terms'[t].end # None
      BY <3>1, <3>2, <3>3, EndedTerm
    <3>5. Stand
      BY <3>2, <3>3 DEF Opened
    <3>6. terms' \in [Terms -> Term \cup {None}]
      BY <2>3, <3>1, <3>4 DEF OfficeInv, TypeOK
    <3>7. \A t \in Sitting' : t = new \/ (t \in Sitting \ outgoing /\ terms'[t] = terms[t])
      BY <3>3, <3>4 DEF Sitting, Opened
    <3>8. \A t \in Sitting \ outgoing : t \in Sitting'
      BY <3>3 DEF Sitting, Opened
    <3>9. OneSittingHolder'
      <4>1. \A t \in Sitting \ outgoing : terms[t].post # q.post
        BY DEF Holding
      <4>2. QED  BY <3>1, <3>3, <3>7, <4>1 DEF OfficeInv, OneSittingHolder
    <3>10. QED  BY <1>3, <2>1, <3>5, <3>6, <3>8, <3>9 DEF OfficeInv, Locked, Doing
  <2>4. QED  BY <1>5, <2>2, <2>3 DEF HandOver
<1>6. ASSUME NEW r \in Requests, CloseTerm(r)
      PROVE  OfficeInv' /\ Stand
  <2> DEFINE q == requests[r]
  <2>1. Finish(r) /\ Doing(r, "close") /\ q.day \in Days
    BY <1>6 DEF CloseTerm, OfficeInv, TypeOK, Doing, Request
  <2>2. q.term \in Sitting /\ terms[q.term] \in Term
    BY <2>1 DEF OfficeInv, TypeOK, ClosingSits, Sitting, Opened
  <2>3. CASE UNCHANGED terms
    BY <1>3, <2>1, <2>3 DEF OfficeInv, TypeOK, OneSittingHolder, Sitting, Opened
  <2>4. CASE terms' = [terms EXCEPT ![q.term] = Ended(terms[q.term], q.day)]
    <3>1. Ended(terms[q.term], q.day) \in Term /\ Ended(terms[q.term], q.day).end # None
      BY <2>1, <2>2, EndedTerm
    <3>2. /\ terms'[q.term] = Ended(terms[q.term], q.day)
          /\ \A t \in Terms \ {q.term} : terms'[t] = terms[t]
      BY <2>2, <2>4 DEF OfficeInv, TypeOK, Sitting, Opened
    <3>3. Stand /\ terms' \in [Terms -> Term \cup {None}]
      BY <2>2, <2>4, <3>1, <3>2 DEF OfficeInv, TypeOK, Opened
    <3>4. \A t \in Sitting' : t \in Sitting /\ terms'[t] = terms[t]
      BY <3>1, <3>2 DEF Sitting, Opened
    <3>5. \A t \in Sitting \ {q.term} : t \in Sitting'
      BY <3>2 DEF Sitting, Opened
    <3>6. OneSittingHolder'
      BY <3>4 DEF OfficeInv, OneSittingHolder
    <3>7. \A p \in Requests \ {r} : ~(Doing(p, "close") /\ requests[p].term = q.term)
      BY <2>1 DEF OfficeInv, ClosingSits
    <3>8. QED  BY <1>3, <2>1, <3>3, <3>5, <3>6, <3>7 DEF OfficeInv
  <2>5. QED  BY <1>6, <2>3, <2>4 DEF CloseTerm
<1>7. ASSUME NEW r \in Requests, Fail(r)
      PROVE  OfficeInv' /\ Stand
  BY <1>3, <1>7 DEF Fail, OfficeInv, TypeOK, OneSittingHolder, Sitting, Opened
<1>8. CASE UNCHANGED vars
  BY <1>8 DEF vars, OfficeInv, TypeOK, OneSittingHolder, ClosingSits, Sitting, Opened, Doing
<1>9. QED  BY <1>1, <1>2, <1>4, <1>5, <1>6, <1>7, <1>8 DEF Next

LEMMA OfficeInit == Init => OfficeInv
<1> SUFFICES ASSUME Init
             PROVE  OfficeInv
  OBVIOUS
<1> USE OfficeRowAssumption, OfficeAssumption
<1>1. PICK t \in Terms, m \in Accounts, p \in AdminPosts, d \in Days :
         terms = [u \in Terms |-> IF u = t
                    THEN [member |-> m, post |-> p, start |-> d, end |-> None,
                          excused |-> FALSE]
                    ELSE None]
  BY DEF Init
<1>2. TypeOK
  BY <1>1 DEF Init, TypeOK, Term
<1>3. \A u \in Sitting : u = t
  BY <1>1 DEF Sitting, Opened
<1>4. OneSittingHolder /\ ClosingSits
  BY <1>3 DEF Init, OneSittingHolder, ClosingSits, Doing
<1>5. QED  BY <1>2, <1>4 DEF OfficeInv

\* Terms and the requests on them agree in every state.
LEMMA OfficeInvariant == Spec => []OfficeInv
<1>1. OfficeInv /\ [Next]_vars => OfficeInv'
  BY OfficeStep
<1>2. QED  BY <1>1, OfficeInit, PTL DEF Spec

\* Every reachable state of the terms and the requests is well typed.
THEOREM OfficeTypes == Spec => []TypeOK
<1>1. OfficeInv => TypeOK
  BY DEF OfficeInv
<1>2. QED  BY <1>1, OfficeInvariant, PTL

\* The indexes and the row locks are enough: a post never has two sitting holders
\* (admin-offices.ts:204-235, office_holders_one_current_parish and office_holders_one_current_house).
THEOREM PostsHaveOneHolder == Spec => []OneSittingHolder
<1>1. OfficeInv => OneSittingHolder
  BY DEF OfficeInv
<1>2. QED  BY <1>1, OfficeInvariant, PTL

\* A closing and a handover of one term never both write its end.
THEOREM ClosedTermsAreFinal == Spec => ClosedTermsStand
<1>1. OfficeInv /\ [Next]_vars => OfficeInv'
  BY OfficeStep
<1>2. OfficeInv /\ [Next]_vars => [\A t \in Opened \ Sitting : terms'[t] = terms[t]]_vars
  BY OfficeStep
<1>3. QED  BY <1>1, <1>2, OfficeInit, PTL DEF Spec, ClosedTermsStand

-----------------------------------------------------------------------------
(***************************************************************************)
(* Photographs.  A key is claimed once; from then on it is with the one    *)
(* request that confirms it, and afterwards on a row of its owner or of    *)
(* interest to nobody but who deletes it.                                  *)
(***************************************************************************)
\* A key was granted to this owner and claimed: nobody can claim it again.
Claimed(k, owner) ==
    k \in Keys /\ grants[k] # Nothing /\ grants[k].used /\ grants[k].owner = owner

OnRow(k) == \E s \in Scopes, o \in Owners : photos[s][o] = k

\* A confirmation on its way to the row.
InHand(q) == q # Nothing /\ q.step \in {"head", "previous", "write"}

\* The keys a request carries, or has from a row.
Refers(q, k) ==
    /\ q # Nothing
    /\ \/ q.step \in {"head", "previous", "write", "delete"} /\ q.key = k
       \/ q.step = "write" /\ q.previous = k
       \/ q.step = "join" /\ q.photo = k

\* What is confirmed is the owner's, on no row yet, and was seen in the store.
CarriedSound(q) ==
    InHand(q) => /\ Claimed(q.key, q.owner)
                 /\ ~OnRow(q.key)
                 /\ q.step # "head" => objects[q.key] # "none"

\* The row read before the write was the draft's; its photograph is not the member's,
\* unless the completion crossed.
WriteSound(q) ==
    q # Nothing /\ q.step = "write" /\ q.previous # Nothing =>
        /\ q.scope = "drafts"
        /\ q.previous # q.key
        /\ Claimed(q.previous, q.owner)
        /\ q.owner \notin crossed => photos["members"][q.owner] # q.previous

\* What is about to be deleted is on no row of its owner any more, unless ...
DeleteSound(q) ==
    q # Nothing /\ q.step = "delete" =>
        /\ Claimed(q.key, q.owner)
        /\ q.owner \notin crossed => \A s \in Scopes : photos[s][q.owner] # q.key

\* What was copied for the member is still on the row of the draft, unless ...
JoinSound(q) ==
    q # Nothing /\ q.step = "join" =>
        /\ q.owner \notin promoted
        /\ q.photo # Nothing => Claimed(q.photo, q.owner)
        /\ q.owner \notin crossed => q.photo = photos["drafts"][q.owner]

Sound(q) == CarriedSound(q) /\ WriteSound(q) /\ DeleteSound(q) /\ JoinSound(q)

CallsSound == \A r \in Calls : Sound(calls[r])

RowsClaimed ==
    \A s \in Scopes, o \in Owners : photos[s][o] # Nothing => Claimed(photos[s][o], o)

\* A key on its way to a row is with one request.
CarriedAlone ==
    \A r, t \in Calls : r # t /\ InHand(calls[r]) => ~Refers(calls[t], calls[r].key)

\* A request that found the draft of d and has yet to write or delete its row.
Holds(q, d) ==
    /\ q # Nothing
    /\ q.step \in {"head", "previous", "write", "remove"}
    /\ q.scope = "drafts" /\ q.owner = d

\* One completion of a registration, and beside it nobody at work on the row of the
\* draft, unless it is known to be crossed.
JoinsAlone ==
    \A r, t \in Calls : At(r, "join") /\ r # t =>
        /\ ~(At(t, "join") /\ calls[t].owner = calls[r].owner)
        /\ calls[r].owner \notin crossed => ~Holds(calls[t], calls[r].owner)

PhotosInv ==
    /\ PhotosTypeOK
    /\ RowsClaimed
    /\ CallsSound
    /\ CarriedAlone
    /\ JoinsAlone
    /\ KeysAreTheirs
    /\ PhotosOnFile

-----------------------------------------------------------------------------
\* The fields of a request at each step.
LEMMA CallFields ==
    ASSUME NEW q \in Call
    PROVE  /\ q # Nothing
           /\ q.step \in {"head", "previous", "write", "delete", "remove", "join"}
           /\ q.scope \in Scopes
           /\ q.owner \in Owners
           /\ q.step \in {"head", "previous", "write", "delete"} => q.key \in Keys
           /\ q.step = "write" => q.previous \in Row
           /\ q.step \in {"remove", "join"} => q.owner \in Drafts
           /\ q.step = "remove" => q.scope = "drafts"
           /\ q.step = "join" => q.photo \in Row /\ q.scope = "members"
           /\ q.step = "head" => [q EXCEPT !.step = "previous"] \in Call
    BY RowAssumption DEF Call, Owners, Scopes

LEMMA CallMade ==
    ASSUME NEW s \in Scopes, NEW o \in Owners, NEW k \in Keys, NEW p \in Row
    PROVE  /\ [step |-> "head", scope |-> s, owner |-> o, key |-> k] \in Call
           /\ [step |-> "write", scope |-> s, owner |-> o, key |-> k, previous |-> p] \in Call
           /\ [step |-> "delete", scope |-> s, owner |-> o, key |-> k] \in Call
           /\ o \in Drafts => /\ [step |-> "remove", scope |-> "drafts", owner |-> o] \in Call
                              /\ [step |-> "join", scope |-> "members", owner |-> o, photo |-> p]
                                    \in Call
    BY DEF Call

LEMMA CallGoes ==
    ASSUME PhotosTypeOK, NEW r \in Calls, NEW q \in Call \cup {Nothing}, Goes(r, q)
    PROVE  /\ calls' \in [Calls -> Call \cup {Nothing}]
           /\ calls'[r] = q
           /\ \A t \in Calls : t # r => calls'[t] = calls[t]
    BY DEF PhotosTypeOK, Goes

\* What a request refers to was claimed, for its owner.
LEMMA ReferredWasClaimed ==
    ASSUME NEW q \in Call \cup {Nothing}, Sound(q), NEW k \in Keys, Refers(q, k)
    PROVE  Claimed(k, q.owner)
    BY RowAssumption DEF Sound, CarriedSound, WriteSound, DeleteSound, JoinSound, InHand, Refers

\* The part of the invariant that is about requests, when request r becomes q.
LEMMA CallBecomes ==
    ASSUME PhotosInv, NEW r \in Calls, NEW q \in Call \cup {Nothing}, Goes(r, q),
           \A t \in Calls \ {r} : Sound(calls[t])',
           Sound(q)',
           InHand(q) => \A t \in Calls \ {r} : ~Refers(calls[t], q.key),
           \A t \in Calls \ {r} : InHand(calls[t]) => ~Refers(q, calls[t].key),
           crossed \subseteq crossed',
           q # Nothing /\ q.step = "join" =>
               \A t \in Calls \ {r} :
                   /\ ~(At(t, "join") /\ calls[t].owner = q.owner)
                   /\ q.owner \notin crossed' => ~Holds(calls[t], q.owner),
           \A t \in Calls \ {r} :
               At(t, "join") /\ calls[t].owner \notin crossed' => ~Holds(q, calls[t].owner)
    PROVE  CallsSound' /\ CarriedAlone' /\ JoinsAlone'
<1> USE CallGoes DEF PhotosInv
<1>1. /\ calls'[r] = q
      /\ \A t \in Calls : t # r => calls'[t] = calls[t]
    OBVIOUS
<1>2. CallsSound'
  <2> SUFFICES ASSUME NEW t \in Calls PROVE Sound(calls[t])'
      BY DEF CallsSound
  <2>1. CASE t = r
      BY <1>1, <2>1 DEF Sound, CarriedSound, WriteSound, DeleteSound, JoinSound,
         InHand, OnRow, Claimed
  <2>2. QED  BY <2>1
<1>3. CarriedAlone'
    BY <1>1 DEF CarriedAlone, InHand, Refers
<1>4. JoinsAlone'
    BY <1>1 DEF JoinsAlone, At, Holds
<1> QED  BY <1>2, <1>3, <1>4

-----------------------------------------------------------------------------
\* Grants are only given and used up, pictures only put, while no request moves.
LEMMA GrantStep ==
    ASSUME PhotosInv, UNCHANGED <<promoted, photos, calls, crossed>>,
           grants' \in [Keys -> Grant \cup {Nothing}], objects' \in [Keys -> Contents],
           \A k \in Keys : grants[k] # Nothing /\ grants[k].used => grants'[k] = grants[k],
           \A k \in Keys : objects[k] # "none" => objects'[k] # "none"
    PROVE  PhotosInv'
<1> USE DEF PhotosInv
<1>1. PhotosTypeOK'
    BY DEF PhotosTypeOK
<1>2. RowsClaimed' /\ KeysAreTheirs'
    BY RowAssumption DEF RowsClaimed, KeysAreTheirs, Claimed
<1>3. CallsSound'
  <2> SUFFICES ASSUME NEW r \in Calls PROVE Sound(calls[r])'
      BY DEF CallsSound
  <2>1. Sound(calls[r])
      BY DEF CallsSound
  <2>2. QED
      BY <2>1 DEF Sound, CarriedSound, WriteSound, DeleteSound, JoinSound,
         InHand, OnRow, Claimed
<1>4. CarriedAlone' /\ JoinsAlone'
    BY DEF CarriedAlone, JoinsAlone, InHand, Refers, Holds, At
<1>5. PhotosOnFile'
    BY DEF PhotosOnFile, PhotosTypeOK, Row
<1> QED  BY <1>1, <1>2, <1>3, <1>4, <1>5

LEMMA UploadStep ==
    ASSUME PhotosInv, NEW k \in Keys,
           \/ \E scope \in Scopes, owner \in Owners : UploadUrl(scope, owner, k)
           \/ \E content \in {"jpeg", "unfit"} : Put(k, content)
           \/ GrantExpires(k)
    PROVE  PhotosInv'
<1> USE DEF PhotosInv
<1>1. CASE \E scope \in Scopes, owner \in Owners : UploadUrl(scope, owner, k)
    BY <1>1, GrantStep, RowAssumption DEF UploadUrl, PhotosTypeOK, Grant
<1>2. CASE \E content \in {"jpeg", "unfit"} : Put(k, content)
    BY <1>2, GrantStep DEF Put, PhotosTypeOK, Contents
<1>3. CASE GrantExpires(k)
  <2>1. grants' \in [Keys -> Grant \cup {Nothing}]
      BY <1>3 DEF GrantExpires, PhotosTypeOK, Grant
  <2> QED
      BY <1>3, <2>1, GrantStep DEF GrantExpires, PhotosTypeOK
<1> QED  BY <1>1, <1>2, <1>3

\* A request begins or ends, or reads, and leaves the rows and objects alone.
LEMMA QuietStep ==
    ASSUME PhotosInv, NEW r \in Calls, NEW q \in Call \cup {Nothing}, Goes(r, q),
           UNCHANGED <<promoted, photos>>,
           grants' \in [Keys -> Grant \cup {Nothing}], objects' \in [Keys -> Contents],
           \A k \in Keys : grants[k] # Nothing /\ grants[k].used => grants'[k] = grants[k],
           \A k \in Keys : objects'[k] # objects[k] =>
               /\ \A s \in Scopes, o \in Owners \ crossed : photos[s][o] # k
               /\ \A t \in Calls \ {r} : InHand(calls[t]) => calls[t].key # k,
           crossed' \in SUBSET Drafts, crossed \subseteq crossed',
           Sound(q)',
           InHand(q) => \A t \in Calls \ {r} : ~Refers(calls[t], q.key),
           \A t \in Calls \ {r} : InHand(calls[t]) => ~Refers(q, calls[t].key),
           q # Nothing /\ q.step = "join" =>
               \A t \in Calls \ {r} :
                   /\ ~(At(t, "join") /\ calls[t].owner = q.owner)
                   /\ q.owner \notin crossed' => ~Holds(calls[t], q.owner),
           \A t \in Calls \ {r} :
               At(t, "join") /\ calls[t].owner \notin crossed' => ~Holds(q, calls[t].owner)
    PROVE  PhotosInv'
<1> USE DEF PhotosInv
<1>1. PhotosTypeOK'
    BY CallGoes DEF PhotosTypeOK
<1>2. RowsClaimed' /\ KeysAreTheirs'
    BY RowAssumption DEF RowsClaimed, KeysAreTheirs, Claimed
<1>3. \A t \in Calls \ {r} : Sound(calls[t])'
  <2> SUFFICES ASSUME NEW t \in Calls \ {r} PROVE Sound(calls[t])'
      OBVIOUS
  <2>1. Sound(calls[t]) /\ calls'[t] = calls[t]
      BY CallGoes DEF CallsSound
  <2>2. QED
      BY <2>1 DEF Sound, CarriedSound, WriteSound, DeleteSound, JoinSound,
         InHand, OnRow, Claimed
<1>4. CallsSound' /\ CarriedAlone' /\ JoinsAlone'
    BY <1>3, CallBecomes
<1>5. PhotosOnFile'
    BY DEF PhotosOnFile, PhotosTypeOK, Row
<1> QED  BY <1>1, <1>2, <1>4, <1>5

LEMMA ClaimStep ==
    ASSUME PhotosInv, NEW r \in Calls, NEW scope \in Scopes, NEW owner \in Owners,
           NEW k \in Keys, Claim(r, scope, owner, k)
    PROVE  PhotosInv'
<1> USE DEF PhotosInv
<1> DEFINE q == [step |-> "head", scope |-> scope, owner |-> owner, key |-> k]
<1>1. q \in Call /\ Goes(r, q)
    BY CallMade DEF Claim, Row
<1>2. /\ grants[k] \in Grant /\ ~grants[k].used /\ grants[k].owner = owner
      /\ grants' = [grants EXCEPT ![k] = [grants[k] EXCEPT !.used = TRUE]]
    BY RowAssumption DEF Claim, GrantedTo, Consumed, PhotosTypeOK
<1>3. grants' \in [Keys -> Grant \cup {Nothing}] /\ grants'[k] \in Grant /\ grants'[k].used
        /\ grants'[k].owner = owner
    BY <1>2 DEF PhotosTypeOK, Grant
<1>4. ~OnRow(k)
    BY <1>2, RowAssumption DEF OnRow, RowsClaimed, Claimed
<1>5. \A t \in Calls : ~Refers(calls[t], k)
    BY <1>2, ReferredWasClaimed DEF CallsSound, Claimed, PhotosTypeOK
<1>6. crossed' \in SUBSET Drafts /\ crossed \subseteq crossed'
    BY DEF Claim, Crossing, DraftLocked, PhotosTypeOK, Found
<1>7. Sound(q)'
    BY <1>3, <1>4, RowAssumption DEF Sound, CarriedSound, WriteSound, DeleteSound, JoinSound,
       InHand, OnRow, Claimed, Claim
<1>8. \A t \in Calls :
          At(t, "join") /\ calls[t].owner \notin crossed' => ~Holds(q, calls[t].owner)
    BY DEF Claim, Crossing, DraftLocked, Holds
<1>9. \A t \in Calls \ {r} : InHand(calls[t]) => ~Refers(q, calls[t].key)
    BY <1>5 DEF Refers, InHand
<1>10. UNCHANGED <<promoted, photos, objects>>
    BY DEF Claim
<1> QED
    BY <1>1, <1>2, <1>3, <1>5, <1>6, <1>7, <1>8, <1>9, <1>10, QuietStep DEF PhotosTypeOK

LEMMA RemoveDraftPhotoStep ==
    ASSUME PhotosInv, NEW r \in Calls, NEW d \in Drafts, RemoveDraftPhoto(r, d)
    PROVE  PhotosInv'
<1> USE DEF PhotosInv
<1> DEFINE q == [step |-> "remove", scope |-> "drafts", owner |-> d]
<1>1. q \in Call /\ Goes(r, q) /\ q # Nothing
    BY RowAssumption DEF RemoveDraftPhoto, Call
<1>2. crossed' \in SUBSET Drafts /\ crossed \subseteq crossed'
    BY DEF RemoveDraftPhoto, Crossing, PhotosTypeOK
<1>3. Sound(q)'
    BY DEF Sound, CarriedSound, WriteSound, DeleteSound, JoinSound, InHand
<1>4. \A t \in Calls :
          At(t, "join") /\ calls[t].owner \notin crossed' => ~Holds(q, calls[t].owner)
    BY DEF RemoveDraftPhoto, Crossing, DraftLocked, Holds
<1>5. ~InHand(q) /\ \A k : ~Refers(q, k)
    BY DEF InHand, Refers
<1> QED
    BY <1>1, <1>2, <1>3, <1>4, <1>5, QuietStep DEF PhotosTypeOK, RemoveDraftPhoto

LEMMA CompleteStep ==
    ASSUME PhotosInv, NEW r \in Calls, NEW d \in Drafts, Complete(r, d)
    PROVE  PhotosInv'
<1> USE DEF PhotosInv
<1> DEFINE q == [step |-> "join", scope |-> "members", owner |-> d, photo |-> photos["drafts"][d]]
<1>1. photos["drafts"][d] \in Row
    BY DEF PhotosTypeOK, Scopes, Owners
<1>2. q \in Call /\ Goes(r, q) /\ q # Nothing
    BY <1>1, RowAssumption DEF Complete, Call
<1>3. crossed' \in SUBSET Drafts /\ crossed \subseteq crossed'
    BY DEF Complete, PhotosTypeOK
<1>4. Sound(q)'
    BY <1>1, RowAssumption DEF Sound, CarriedSound, WriteSound, DeleteSound, JoinSound,
       InHand, Complete,
       Found, RowsClaimed, Claimed, Scopes, Owners
<1>5. \A t \in Calls : ~(At(t, "join") /\ calls[t].owner = d)
    BY DEF Complete, DraftLocked
<1>6. d \notin crossed' => \A t \in Calls : ~Holds(calls[t], d)
    BY DEF Complete, HasPhotoOf, Holds
<1>7. \A t \in Calls : InHand(calls[t]) => ~Refers(q, calls[t].key)
    BY <1>1, RowAssumption DEF InHand, Refers, CallsSound, Sound, CarriedSound, OnRow, Scopes, Owners
<1>8. ~InHand(q) /\ \A e : ~Holds(q, e)
    BY DEF InHand, Holds
<1>9. UNCHANGED <<promoted, photos, grants, objects>>
    BY DEF Complete
<1> QED
    BY <1>2, <1>3, <1>4, <1>5, <1>6, <1>7, <1>8, <1>9, QuietStep DEF PhotosTypeOK

\* A request that ends, and on its way may delete an object.
LEMMA EndStep ==
    ASSUME PhotosInv, NEW r \in Calls, Ends(r),
           UNCHANGED <<promoted, photos, grants, crossed>>,
           objects' \in [Keys -> Contents],
           \A k \in Keys : objects'[k] # objects[k] =>
               /\ \A s \in Scopes, o \in Owners \ crossed : photos[s][o] # k
               /\ \A t \in Calls \ {r} : InHand(calls[t]) => calls[t].key # k
    PROVE  PhotosInv'
<1> USE DEF PhotosInv
<1>1. Sound(Nothing)' /\ ~InHand(Nothing) /\ \A k : ~Refers(Nothing, k) /\ ~Holds(Nothing, k)
    BY DEF Sound, CarriedSound, WriteSound, DeleteSound, JoinSound, InHand, Refers, Holds
<1> QED
    BY <1>1, QuietStep DEF Ends, PhotosTypeOK

LEMMA FailStep ==
    ASSUME PhotosInv, NEW r \in Calls, CallFails(r)
    PROVE  PhotosInv'
    BY EndStep DEF CallFails, PhotosInv, PhotosTypeOK

LEMMA HeadStep ==
    ASSUME PhotosInv, NEW r \in Calls, Head(r)
    PROVE  PhotosInv'
<1> USE DEF PhotosInv
<1> DEFINE request == calls[r]
           k == request.key
<1>1. request \in Call /\ request.step = "head" /\ k \in Keys /\ InHand(request)
    BY CallFields DEF Head, At, PhotosTypeOK, InHand
<1>2. ~OnRow(k)
    BY <1>1 DEF CallsSound, Sound, CarriedSound
<1>3. \A t \in Calls \ {r} : ~Refers(calls[t], k)
    BY <1>1 DEF CarriedAlone
<1>4. CASE objects[k] = "none" /\ Ends(r) /\ UNCHANGED objects
    BY <1>4, EndStep DEF Head, PhotosTypeOK
<1>5. CASE Ends(r) /\ Deletes(k)
  <2>1. objects' \in [Keys -> Contents] /\ \A l \in Keys : objects'[l] # objects[l] => l = k
      BY <1>5 DEF Deletes, PhotosTypeOK, Contents
  <2>2. \A s \in Scopes, o \in Owners : photos[s][o] # k
      BY <1>2 DEF OnRow
  <2>3. \A t \in Calls \ {r} : InHand(calls[t]) => calls[t].key # k
      BY <1>3 DEF InHand, Refers
  <2> QED
      BY <1>5, <2>1, <2>2, <2>3, EndStep DEF Head
<1>6. CASE objects[k] = "jpeg" /\ Goes(r, [request EXCEPT !.step = "previous"])
             /\ UNCHANGED objects
  <2>0. PICK q \in Call : q = [request EXCEPT !.step = "previous"]
      BY <1>1, CallFields
  <2>1. /\ Goes(r, q) /\ q # Nothing /\ q.step = "previous"
        /\ q.scope = request.scope /\ q.owner = request.owner /\ q.key = k
      BY <1>1, <1>6, <2>0, RowAssumption DEF Call
  <2>2. Sound(request)
      BY DEF CallsSound
  <2>3. UNCHANGED <<promoted, grants, photos, objects, crossed>>
      BY <1>6 DEF Head
  <2>4. Sound(q)'
      BY <1>1, <1>6, <2>1, <2>2, <2>3 DEF Sound, CarriedSound, WriteSound, DeleteSound, JoinSound,
         InHand, OnRow, Claimed
  <2>5. \A t \in Calls \ {r} : InHand(calls[t]) => ~Refers(q, calls[t].key)
      BY <1>3, <2>1 DEF Refers, InHand
  <2>6. \A t \in Calls \ {r} :
            At(t, "join") /\ calls[t].owner \notin crossed => ~Holds(q, calls[t].owner)
      BY <1>1, <2>1 DEF JoinsAlone, Holds, InHand
  <2> QED
      BY <1>3, <1>6, <2>1, <2>3, <2>4, <2>5, <2>6, QuietStep DEF PhotosTypeOK
<1> QED  BY <1>4, <1>5, <1>6 DEF Head

LEMMA DeleteObjectStep ==
    ASSUME PhotosInv, NEW r \in Calls, DeleteObject(r)
    PROVE  PhotosInv'
<1> USE DEF PhotosInv
<1> DEFINE request == calls[r]
           k == request.key
<1>1. request \in Call /\ request.step = "delete" /\ k \in Keys /\ request # Nothing
    BY CallFields DEF DeleteObject, At, PhotosTypeOK
<1>2. Claimed(k, request.owner)
        /\ (request.owner \notin crossed => \A s \in Scopes : photos[s][request.owner] # k)
    BY <1>1 DEF CallsSound, Sound, DeleteSound
<1>3. \A s \in Scopes, o \in Owners \ crossed : photos[s][o] # k
    BY <1>1, <1>2, RowAssumption DEF RowsClaimed, Claimed
<1>4. \A t \in Calls \ {r} : InHand(calls[t]) => calls[t].key # k
    BY <1>1 DEF CarriedAlone, Refers
<1>5. objects' \in [Keys -> Contents] /\ \A l \in Keys : objects'[l] # objects[l] => l = k
    BY <1>1 DEF DeleteObject, Deletes, PhotosTypeOK, Contents
<1> QED
    BY <1>3, <1>4, <1>5, EndStep DEF DeleteObject

-----------------------------------------------------------------------------
LEMMA Written ==
    ASSUME PhotosTypeOK, NEW scope \in Scopes, NEW owner \in Owners, NEW k \in Row,
           Writes(scope, owner, k)
    PROVE  /\ photos' \in [Scopes -> [Owners -> Row]]
           /\ photos'[scope][owner] = k
           /\ \A s \in Scopes, o \in Owners :
                  s # scope \/ o # owner => photos'[s][o] = photos[s][o]
    BY DEF PhotosTypeOK, Writes

\* A request that writes or deletes one row, and ends or goes on to delete an object.
LEMMA RowStep ==
    ASSUME PhotosInv, NEW r \in Calls, NEW q \in Call \cup {Nothing}, Goes(r, q),
           NEW scope \in Scopes, NEW owner \in Owners, NEW k \in Row,
           Writes(scope, owner, k), UNCHANGED <<promoted, grants, objects, crossed>>,
           k # Nothing => /\ Claimed(k, owner) /\ ~OnRow(k) /\ objects[k] # "none"
                       /\ \A t \in Calls \ {r} : ~Refers(calls[t], k),
           scope = "drafts" => Holds(calls[r], owner),
           ~At(r, "join"),
           q # Nothing => q.step = "delete",
           Sound(q)',
           \A t \in Calls \ {r} : InHand(calls[t]) => ~Refers(q, calls[t].key)
    PROVE  PhotosInv'
<1> USE DEF PhotosInv
<1>1. /\ photos' \in [Scopes -> [Owners -> Row]]
      /\ photos'[scope][owner] = k
      /\ \A s \in Scopes, o \in Owners :
             s # scope \/ o # owner => photos'[s][o] = photos[s][o]
    BY Written
<1>2. PhotosTypeOK'
    BY <1>1, CallGoes DEF PhotosTypeOK
<1>3. RowsClaimed'
    BY <1>1 DEF RowsClaimed, Claimed
<1>4. KeysAreTheirs'
  <2> SUFFICES ASSUME NEW s \in Scopes, NEW t \in Scopes, NEW o \in Owners, NEW p \in Owners,
                      photos'[s][o] # Nothing
               PROVE  /\ grants'[photos'[s][o]] # Nothing /\ grants'[photos'[s][o]].owner = o
                      /\ photos'[s][o] = photos'[t][p] => s = t /\ o = p
      BY DEF KeysAreTheirs
  <2>1. Claimed(photos'[s][o], o)
      BY <1>3 DEF RowsClaimed, Claimed
  <2>2. ASSUME photos'[s][o] = photos'[t][p] PROVE s = t /\ o = p
    <3>1. CASE k = Nothing \/ (~(s = scope /\ o = owner) /\ ~(t = scope /\ p = owner))
        BY <1>1, <2>2, <3>1 DEF KeysAreTheirs
    <3>2. CASE k # Nothing /\ s = scope /\ o = owner
        BY <1>1, <2>2, <3>2 DEF OnRow
    <3>3. CASE k # Nothing /\ t = scope /\ p = owner
        BY <1>1, <2>2, <3>3 DEF OnRow
    <3> QED  BY <3>1, <3>2, <3>3
  <2> QED  BY <2>1, <2>2 DEF Claimed
<1>5. PhotosOnFile'
    BY <1>1 DEF PhotosOnFile
<1>6. \A t \in Calls \ {r} : Sound(calls[t])'
  <2> SUFFICES ASSUME NEW t \in Calls \ {r} PROVE Sound(calls[t])'
      OBVIOUS
  <2> DEFINE request == calls[t]
  <2>1. /\ Sound(request) /\ calls'[t] = request
        /\ request # Nothing => request \in Call
      BY CallGoes DEF CallsSound, PhotosTypeOK
  <2>2. CarriedSound(request)'
    <3>1. InHand(request) => request.key # k
        BY RowAssumption, <2>1, CallFields DEF InHand, Refers
    <3> QED
        BY <1>1, <2>1, <3>1 DEF Sound, CarriedSound, InHand, OnRow, Claimed
  <2>3. WriteSound(request)'
    <3> SUFFICES ASSUME request # Nothing, request.step = "write", request.previous # Nothing
                 PROVE  WriteSound(request)'
        BY <2>1 DEF WriteSound
    <3>1. request.owner \in Owners /\ request.previous # k
        BY <2>1, CallFields DEF Refers
    <3> QED
        BY <1>1, <2>1, <3>1 DEF Sound, WriteSound, Claimed, Scopes
  <2>4. DeleteSound(request)'
    <3> SUFFICES ASSUME request # Nothing, request.step = "delete" PROVE DeleteSound(request)'
        BY <2>1 DEF DeleteSound
    <3>1. request.owner \in Owners /\ request.key # k
        BY <2>1, CallFields, RowAssumption DEF Refers
    <3> QED
        BY <1>1, <2>1, <3>1 DEF Sound, DeleteSound, Claimed
  <2>5. JoinSound(request)'
    <3> SUFFICES ASSUME request # Nothing, request.step = "join" PROVE JoinSound(request)'
        BY <2>1 DEF JoinSound
    <3>1. request.owner \in Owners /\ "drafts" \in Scopes
        BY <2>1, CallFields DEF Scopes
    <3>2. scope = "drafts" /\ request.owner \notin crossed => request.owner # owner
        BY DEF JoinsAlone, At
    <3> QED
        BY <1>1, <2>1, <3>1, <3>2 DEF Sound, JoinSound, Claimed
  <2> QED  BY <2>2, <2>3, <2>4, <2>5 DEF Sound
<1>7. ~InHand(q) /\ \A d : ~Holds(q, d)
    BY DEF InHand, Holds
<1>8. CallsSound' /\ CarriedAlone' /\ JoinsAlone'
    BY <1>6, <1>7, CallBecomes
<1> QED  BY <1>2, <1>3, <1>4, <1>5, <1>8

\* A row is written or deleted, and the object it had before is deleted next.
LEMMA ReplaceStep ==
    ASSUME PhotosInv, NEW r \in Calls, NEW scope \in Scopes, NEW owner \in Owners,
           NEW k \in Row, NEW old \in Row,
           Writes(scope, owner, k), UNCHANGED <<promoted, grants, objects, crossed>>,
           k # Nothing => /\ Claimed(k, owner) /\ ~OnRow(k) /\ objects[k] # "none"
                       /\ \A t \in Calls \ {r} : ~Refers(calls[t], k),
           scope = "drafts" => Holds(calls[r], owner),
           ~At(r, "join"),
           old # Nothing =>
               /\ Claimed(old, owner)
               /\ owner \notin crossed => \A s \in Scopes \ {scope} : photos[s][owner] # old
               /\ \A t \in Calls \ {r} : InHand(calls[t]) => calls[t].key # old,
           IF old \in {Nothing, k} THEN Ends(r)
           ELSE Goes(r, [step |-> "delete", scope |-> scope, owner |-> owner, key |-> old])
    PROVE  PhotosInv'
<1> USE DEF PhotosInv
<1>1. CASE Ends(r)
  <2>1. Sound(Nothing)' /\ \A l : ~Refers(Nothing, l)
      BY DEF Sound, CarriedSound, WriteSound, DeleteSound, JoinSound, InHand, Refers
  <2> QED
      BY <1>1, <2>1, RowStep DEF Ends
<1>2. CASE old \notin {Nothing, k}
  <2> DEFINE q == [step |-> "delete", scope |-> scope, owner |-> owner, key |-> old]
  <2>1. old \in Keys /\ q \in Call /\ Goes(r, q) /\ q.step = "delete"
      BY <1>2, CallMade DEF Row
  <2>2. /\ photos'[scope][owner] = k
        /\ \A s \in Scopes \ {scope} : photos'[s][owner] = photos[s][owner]
      BY Written
  <2>3. Sound(q)'
      BY <1>2, <2>1, <2>2 DEF Sound, CarriedSound, WriteSound, DeleteSound, JoinSound,
         InHand, Claimed
  <2>4. \A t \in Calls \ {r} : InHand(calls[t]) => ~Refers(q, calls[t].key)
      BY <1>2, <2>1 DEF Refers
  <2> QED
      BY <2>1, <2>3, <2>4, RowStep
<1> QED  BY <1>1, <1>2

\* The photograph of a row: its owner's, in no hand, and not on the owner's other row.
LEMMA RowIsTheirs ==
    ASSUME PhotosInv, NEW scope \in Scopes, NEW owner \in Owners
    PROVE  LET old == photos[scope][owner]
           IN  /\ old \in Row
               /\ \A t \in Calls : InHand(calls[t]) => calls[t].key # old
               /\ old # Nothing =>
                    /\ Claimed(old, owner)
                    /\ \A s \in Scopes \ {scope} : photos[s][owner] # old
<1> USE DEF PhotosInv
<1>1. photos[scope][owner] \in Row
    BY DEF PhotosTypeOK
<1>2. photos[scope][owner] # Nothing =>
          /\ Claimed(photos[scope][owner], owner)
          /\ \A s \in Scopes \ {scope} : photos[s][owner] # photos[scope][owner]
    BY DEF RowsClaimed, KeysAreTheirs
<1>3. \A t \in Calls : InHand(calls[t]) => calls[t].key # photos[scope][owner]
    BY DEF CallsSound, Sound, CarriedSound, OnRow
<1> QED  BY <1>1, <1>2, <1>3

LEMMA RemoveRowStep ==
    ASSUME PhotosInv, NEW r \in Calls, RemoveRow(r)
    PROVE  PhotosInv'
<1> DEFINE d == calls[r].owner
<1>1. "drafts" \in Scopes /\ d \in Owners /\ calls[r].step = "remove" /\ Holds(calls[r], d)
    BY CallFields DEF RemoveRow, At, PhotosInv, PhotosTypeOK, Scopes, Holds
<1>2. PICK old \in Row : old = photos["drafts"][d]
    BY <1>1, RowIsTheirs
<1> QED
    BY <1>1, <1>2, RowIsTheirs, ReplaceStep DEF RemoveRow, At, Row

LEMMA RemoveMemberPhotoStep ==
    ASSUME PhotosInv, NEW r \in Calls, NEW m \in Owners, RemoveMemberPhoto(r, m)
    PROVE  PhotosInv'
<1>1. "members" \in Scopes /\ "members" # "drafts" /\ ~At(r, "join")
    BY DEF RemoveMemberPhoto, At, Scopes
<1>2. PICK old \in Row : old = photos["members"][m]
    BY <1>1, RowIsTheirs
<1> QED
    BY <1>1, <1>2, RowIsTheirs, ReplaceStep DEF RemoveMemberPhoto, Row

LEMMA PreviousStep ==
    ASSUME PhotosInv, NEW r \in Calls, Previous(r)
    PROVE  PhotosInv'
<1> DEFINE request == calls[r]
<1>1. /\ request \in Call /\ request.step = "previous" /\ InHand(request) /\ ~At(r, "join")
      /\ request.scope \in Scopes /\ request.owner \in Owners /\ request.key \in Keys
    BY CallFields DEF Previous, At, PhotosInv, PhotosTypeOK, InHand
<1>2. /\ Claimed(request.key, request.owner) /\ ~OnRow(request.key)
      /\ objects[request.key] # "none"
      /\ \A t \in Calls \ {r} : ~Refers(calls[t], request.key)
    BY <1>1 DEF PhotosInv, CallsSound, Sound, CarriedSound, CarriedAlone
<1>3. PICK scope \in Scopes, owner \in Owners, k \in Keys, old \in Row :
          /\ scope = request.scope /\ owner = request.owner /\ k = request.key
          /\ old = photos[scope][owner]
    BY <1>1, RowIsTheirs
<1>4. CASE scope = "members" /\ old # Nothing
  <2>1. UNCHANGED <<promoted, grants, objects, crossed>> /\ Writes(scope, owner, k)
        /\ Replaces(r, request, old)
      BY <1>3, <1>4 DEF Previous
  <2> QED
      BY <1>1, <1>2, <1>3, <1>4, <2>1, RowIsTheirs, ReplaceStep DEF Replaces, Row
<1>5. CASE ~(scope = "members" /\ old # Nothing)
  <2> DEFINE q == [step |-> "write", scope |-> scope, owner |-> owner, key |-> k, previous |-> old]
  <2>1. /\ Goes(r, q) /\ q \in Call /\ q # Nothing
        /\ UNCHANGED <<promoted, grants, objects, photos, crossed>>
      BY <1>3, <1>5, CallMade, RowAssumption DEF Previous
  <2>2. Sound(q)'
      BY <1>2, <1>3, <1>5, <2>1, RowIsTheirs DEF Sound, CarriedSound, WriteSound, DeleteSound,
         JoinSound, InHand, OnRow, Claimed, Scopes
  <2>3. \A t \in Calls \ {r} : InHand(calls[t]) => ~Refers(q, calls[t].key)
      BY <1>2, <1>3, RowIsTheirs DEF Refers, InHand
  <2>4. \A t \in Calls \ {r} :
            At(t, "join") /\ calls[t].owner \notin crossed => ~Holds(q, calls[t].owner)
      BY <1>1, <1>3, <2>1 DEF PhotosInv, JoinsAlone, Holds, InHand
  <2> QED
      BY <1>2, <1>3, <2>1, <2>2, <2>3, <2>4, QuietStep DEF PhotosInv, PhotosTypeOK
<1> QED  BY <1>4, <1>5

LEMMA WriteStep ==
    ASSUME PhotosInv, NEW r \in Calls, Write(r)
    PROVE  PhotosInv'
<1> DEFINE request == calls[r]
<1>1. /\ request \in Call /\ request.step = "write" /\ InHand(request) /\ ~At(r, "join")
      /\ request.scope \in Scopes /\ request.owner \in Owners /\ request.key \in Keys
      /\ request.previous \in Row
    BY CallFields DEF Write, At, PhotosInv, PhotosTypeOK, InHand
<1>2. /\ Claimed(request.key, request.owner) /\ ~OnRow(request.key)
      /\ objects[request.key] # "none"
      /\ \A t \in Calls \ {r} : ~Refers(calls[t], request.key)
    BY <1>1 DEF PhotosInv, CallsSound, Sound, CarriedSound, CarriedAlone
<1>3. PICK scope \in Scopes, owner \in Owners, k \in Keys, old \in Row :
          /\ scope = request.scope /\ owner = request.owner /\ k = request.key
          /\ old = request.previous
    BY <1>1
<1>4. old # Nothing =>
          /\ Claimed(old, owner) /\ scope = "drafts"
          /\ owner \notin crossed => \A s \in Scopes \ {scope} : photos[s][owner] # old
          /\ \A t \in Calls \ {r} : InHand(calls[t]) => calls[t].key # old
    BY <1>1, <1>3 DEF PhotosInv, CallsSound, Sound, WriteSound, CarriedAlone,
       Refers, Scopes, InHand
<1>5. UNCHANGED <<promoted, grants, objects, crossed>> /\ Writes(scope, owner, k)
        /\ Replaces(r, request, old)
    BY <1>3 DEF Write
<1>6. scope = "drafts" => Holds(request, owner)
    BY <1>1, <1>3 DEF Holds, InHand
<1> QED
    BY <1>1, <1>2, <1>3, <1>4, <1>5, <1>6, ReplaceStep DEF Replaces, Row

-----------------------------------------------------------------------------
\* The registration is committed: the photograph is on the record, the draft's row gone.
LEMMA CompleteEndStep ==
    ASSUME PhotosInv, NEW r \in Calls, CompleteEnd(r)
    PROVE  PhotosInv'
<1> USE DEF PhotosInv
<1> DEFINE request == calls[r]
<1>1. PICK d \in Drafts, k \in Row : d = request.owner /\ k = request.photo
    BY CallFields DEF CompleteEnd, At, PhotosTypeOK
<1>2. /\ At(r, "join") /\ request \in Call /\ d \in Owners /\ Ends(r)
      /\ "drafts" \in Scopes /\ "members" \in Scopes
      /\ promoted' = promoted \cup {d}
      /\ UNCHANGED <<grants, objects, crossed>>
    BY <1>1 DEF CompleteEnd, At, PhotosTypeOK, Owners, Scopes
<1>3. /\ k # Nothing => Claimed(k, d)
      /\ d \notin crossed => k = photos["drafts"][d]
    BY <1>1, <1>2 DEF At, CallsSound, Sound, JoinSound
<1>4. /\ photos' \in [Scopes -> [Owners -> Row]]
      /\ photos'["members"][d] = k /\ photos'["drafts"][d] = Nothing
      /\ \A s \in Scopes, o \in Owners : o # d => photos'[s][o] = photos[s][o]
    BY <1>1, <1>2 DEF CompleteEnd, PhotosTypeOK, Row, Scopes
<1>5. PhotosTypeOK'
    BY <1>2, <1>4, CallGoes DEF PhotosTypeOK, Ends
<1>6. RowsClaimed'
    BY <1>2, <1>3, <1>4 DEF RowsClaimed, Claimed, Scopes
<1>7. KeysAreTheirs'
  <2> SUFFICES ASSUME NEW s \in Scopes, NEW t \in Scopes, NEW o \in Owners, NEW p \in Owners,
                      photos'[s][o] # Nothing
               PROVE  /\ grants'[photos'[s][o]] # Nothing /\ grants'[photos'[s][o]].owner = o
                      /\ photos'[s][o] = photos'[t][p] => s = t /\ o = p
      BY DEF KeysAreTheirs
  <2>1. Claimed(photos'[s][o], o)
      BY <1>2, <1>6 DEF RowsClaimed, Claimed
  <2>2. ASSUME photos'[s][o] = photos'[t][p] PROVE s = t /\ o = p
    <3>1. o = p
        BY <1>2, <1>6, <2>1, <2>2 DEF RowsClaimed, Claimed
    <3>2. CASE o = d
        BY <1>4, <2>2, <3>1, <3>2 DEF Scopes
    <3>3. CASE o # d
        BY <1>4, <2>2, <3>1, <3>3 DEF KeysAreTheirs
    <3> QED  BY <3>1, <3>2, <3>3
  <2> QED  BY <1>2, <2>1, <2>2 DEF Claimed
<1>8. PhotosOnFile'
    BY <1>2, <1>3, <1>4 DEF PhotosOnFile, Scopes
<1>9. \A t \in Calls \ {r} : Sound(calls[t])'
  <2> SUFFICES ASSUME NEW t \in Calls \ {r} PROVE Sound(calls[t])'
      OBVIOUS
  <2> DEFINE other == calls[t]
  <2>1. /\ Sound(other) /\ calls'[t] = other
        /\ other # Nothing => other \in Call
      BY <1>2, CallGoes DEF CallsSound, PhotosTypeOK, Ends
  <2>2. CarriedSound(other)'
    <3> SUFFICES ASSUME InHand(other) PROVE CarriedSound(other)'
        BY <2>1 DEF CarriedSound, InHand
    <3>1. other.key \in Keys /\ other.key # k /\ ~OnRow(other.key)
        BY <1>1, <1>2, <2>1, CallFields DEF InHand, CarriedAlone, Refers, At, Sound, CarriedSound
    <3>2. \A s \in Scopes, o \in Owners : photos'[s][o] # other.key
        BY <1>2, <1>4, <3>1, RowAssumption DEF OnRow, Scopes
    <3> QED
        BY <1>2, <2>1, <3>1, <3>2 DEF Sound, CarriedSound, InHand, OnRow, Claimed
  <2>3. WriteSound(other)'
    <3> SUFFICES ASSUME other # Nothing, other.step = "write", other.previous # Nothing
                 PROVE  WriteSound(other)'
        BY <2>1 DEF WriteSound
    <3>1. other.owner \in Owners /\ other.scope = "drafts"
        BY <2>1, CallFields DEF Sound, WriteSound
    <3>2. other.owner = d => d \in crossed
        BY <1>1, <1>2, <3>1 DEF JoinsAlone, Holds
    <3> QED
        BY <1>2, <1>4, <2>1, <3>1, <3>2 DEF Sound, WriteSound, Claimed
  <2>4. DeleteSound(other)'
    <3> SUFFICES ASSUME other # Nothing, other.step = "delete" PROVE DeleteSound(other)'
        BY <2>1 DEF DeleteSound
    <3>1. other.owner \in Owners /\ other.key \in Keys
        BY <2>1, CallFields
    <3>2. \A s \in Scopes : s = "drafts" \/ s = "members"
        BY DEF Scopes
    <3> QED
        BY <1>2, <1>3, <1>4, <2>1, <3>1, <3>2, RowAssumption DEF Sound, DeleteSound, Claimed
  <2>5. JoinSound(other)'
    <3> SUFFICES ASSUME other # Nothing, other.step = "join" PROVE JoinSound(other)'
        BY <2>1 DEF JoinSound
    <3>1. other.owner \in Owners /\ other.owner # d
        BY <1>1, <1>2, <2>1, CallFields DEF JoinsAlone, At
    <3> QED
        BY <1>2, <1>4, <2>1, <3>1 DEF Sound, JoinSound, Claimed
  <2> QED  BY <2>2, <2>3, <2>4, <2>5 DEF Sound
<1>10. Sound(Nothing)' /\ ~InHand(Nothing) /\ \A l : ~Refers(Nothing, l) /\ ~Holds(Nothing, l)
    BY DEF Sound, CarriedSound, WriteSound, DeleteSound, JoinSound, InHand, Refers, Holds
<1>11. CallsSound' /\ CarriedAlone' /\ JoinsAlone'
    BY <1>2, <1>9, <1>10, CallBecomes DEF Ends
<1> QED  BY <1>5, <1>6, <1>7, <1>8, <1>11

-----------------------------------------------------------------------------
LEMMA PhotosInitially == PhotosInit => PhotosInv
<1> SUFFICES ASSUME PhotosInit PROVE PhotosInv
    OBVIOUS
<1>1. \A s \in Scopes, o \in Owners : photos[s][o] = Nothing
    BY DEF PhotosInit
<1>2. \A r \in Calls : calls[r] = Nothing
    BY DEF PhotosInit
<1>3. PhotosTypeOK
    BY DEF PhotosInit, PhotosTypeOK, Contents, Row
<1>4. RowsClaimed /\ KeysAreTheirs /\ PhotosOnFile
    BY <1>1 DEF RowsClaimed, KeysAreTheirs, PhotosOnFile
<1>5. CallsSound /\ CarriedAlone /\ JoinsAlone
    BY <1>2 DEF CallsSound, CarriedAlone, JoinsAlone, Sound, CarriedSound, WriteSound,
       DeleteSound, JoinSound, InHand, At
<1> QED  BY <1>3, <1>4, <1>5 DEF PhotosInv

LEMMA PhotosStep == PhotosInv /\ [PhotosNext]_photoVars => PhotosInv'
<1> SUFFICES ASSUME PhotosInv, [PhotosNext]_photoVars PROVE PhotosInv'
    OBVIOUS
<1>1. CASE UNCHANGED photoVars
    BY <1>1, GrantStep DEF photoVars, PhotosInv, PhotosTypeOK
<1>2. ASSUME NEW k \in Keys,
             \/ \E scope \in Scopes, owner \in Owners : UploadUrl(scope, owner, k)
             \/ \E content \in {"jpeg", "unfit"} : Put(k, content)
             \/ GrantExpires(k)
      PROVE  PhotosInv'
    BY <1>2, UploadStep
<1>3. ASSUME NEW r \in Calls, NEW scope \in Scopes, NEW owner \in Owners, NEW k \in Keys,
             Claim(r, scope, owner, k)
      PROVE  PhotosInv'
    BY <1>3, ClaimStep
<1>4. ASSUME NEW r \in Calls, NEW d \in Drafts, RemoveDraftPhoto(r, d) \/ Complete(r, d)
      PROVE  PhotosInv'
    BY <1>4, RemoveDraftPhotoStep, CompleteStep
<1>5. ASSUME NEW r \in Calls, NEW m \in Owners, RemoveMemberPhoto(r, m)
      PROVE  PhotosInv'
    BY <1>5, RemoveMemberPhotoStep
<1>6. ASSUME NEW r \in Calls, Step(r) PROVE PhotosInv'
    BY <1>6, HeadStep, PreviousStep, WriteStep, DeleteObjectStep, RemoveRowStep, CompleteEndStep,
       FailStep DEF Step
<1> QED  BY <1>1, <1>2, <1>3, <1>4, <1>5, <1>6 DEF PhotosNext

LEMMA PhotosInvariant == PhotosSpec => []PhotosInv
    BY PhotosInitially, PhotosStep, PTL DEF PhotosSpec

\* Types of the grants, the objects, the rows and the requests.
THEOREM PhotoTypes == PhotosSpec => []PhotosTypeOK
    BY PhotosInvariant, PTL DEF PhotosInv

\* A photograph on a record was granted to the one it is of and is on no other record,
\* for any number of people, keys and requests (photos.ts: claimUploadKey).
THEOREM KeysStayTheirs == PhotosSpec => []KeysAreTheirs
    BY PhotosInvariant, PTL DEF PhotosInv

\* No row names an object that was deleted, unless the registration was completed while
\* a request was at work on its photograph (photos.ts, signup.ts: POST /complete).
THEOREM PhotosStayOnFile == PhotosSpec => []PhotosOnFile
    BY PhotosInvariant, PTL DEF PhotosInv
=============================================================================
