---------------------------- MODULE Photographs ----------------------------
(***************************************************************************)
(* The photograph of an applicant and of a member (src/src/routes/         *)
(* photos.ts): a key is granted to a draft or to a member, the browser     *)
(* puts the picture in the store under it, and a confirmation claims the   *)
(* key, looks at the object (src/src/media/r2.ts), writes the row and      *)
(* deletes the object of the row before.  Completing a registration        *)
(* (src/src/routes/signup.ts) moves the row of the draft to the member,    *)
(* who has the name of the draft here.                                     *)
(***************************************************************************)
EXTENDS Naturals, FiniteSets

CONSTANTS
    Drafts,         \* registrations under way
    Existing,       \* members there were before
    Keys,           \* object keys newPhotoKey may return
    Calls,          \* requests under way at once
    Nothing         \* no row, no grant, no request

Owners == Existing \cup Drafts
Scopes == {"drafts", "members"}

ASSUME NamesAssumption == Existing \cap Drafts = {}

VARIABLES
    promoted,       \* drafts that were completed
    grants,         \* photo_upload_grants
    objects,        \* what the store holds under each key
    photos,         \* signup_draft_photos and member_photos: the key of the row
    calls,          \* requests under way
    crossed         \* drafts completed while a request had their photo (history)

photoVars == <<promoted, grants, objects, photos, calls, crossed>>

\* used: consumed, or past expires_at.
Grant == [scope : Scopes, owner : Owners, used : BOOLEAN]
Contents == {"none", "jpeg", "unfit"}
Row == Keys \cup {Nothing}

Call ==
    [step : {"head", "previous"}, scope : Scopes, owner : Owners, key : Keys]
      \cup [step : {"write"}, scope : Scopes, owner : Owners, key : Keys,
            previous : Row]
      \cup [step : {"delete"}, scope : Scopes, owner : Owners, key : Keys]
      \cup [step : {"remove"}, scope : {"drafts"}, owner : Drafts]
      \cup [step : {"join"}, scope : {"members"}, owner : Drafts, photo : Row]

ASSUME RowAssumption == Nothing \notin Keys \cup Grant \cup Call

PhotosTypeOK ==
    /\ promoted \in SUBSET Drafts
    /\ grants \in [Keys -> Grant \cup {Nothing}]
    /\ objects \in [Keys -> Contents]
    /\ photos \in [Scopes -> [Owners -> Row]]
    /\ calls \in [Calls -> Call \cup {Nothing}]
    /\ crossed \in SUBSET Drafts

PhotosInit ==
    /\ promoted = {}
    /\ grants = [k \in Keys |-> Nothing]
    /\ objects = [k \in Keys |-> "none"]
    /\ photos = [s \in Scopes |-> [o \in Owners |-> Nothing]]
    /\ calls = [r \in Calls |-> Nothing]
    /\ crossed = {}
-----------------------------------------------------------------------------
\* Whom a handler finds: a draft that was not completed, a member on record.
Found(scope) == IF scope = "drafts" THEN Drafts \ promoted
                                    ELSE Existing \cup promoted

At(r, step) == calls[r] # Nothing /\ calls[r].step = step
Goes(r, request) == calls' = [calls EXCEPT ![r] = request]
Ends(r) == Goes(r, Nothing)

\* FOR UPDATE on the draft, held by the registration being completed.
DraftLocked(d) == \E r \in Calls : At(r, "join") /\ calls[r].owner = d

\* A request that found the draft and has yet to write or delete its row.
HasPhotoOf(r, d) ==
    /\ calls[r] # Nothing
    /\ calls[r].step \in {"head", "previous", "write", "remove"}
    /\ calls[r].scope = "drafts" /\ calls[r].owner = d

\* Such a request may also come while the registration is being completed.
Crossing(scope, owner) ==
    crossed' = IF scope = "drafts" /\ DraftLocked(owner)
               THEN crossed \cup {owner} ELSE crossed

Writes(scope, owner, key) ==
    photos' = [photos EXCEPT ![scope][owner] = key]

\* deleteObject: a failure is logged and nothing else.
Deletes(k) ==
    \/ objects' = [objects EXCEPT ![k] = "none"]
    \/ UNCHANGED objects
-----------------------------------------------------------------------------
\* upload-url: a fresh key is granted and signed.
UploadUrl(scope, owner, k) ==
    /\ owner \in Found(scope)
    /\ grants[k] = Nothing
    /\ grants' = [grants EXCEPT ![k] =
                    [scope |-> scope, owner |-> owner, used |-> FALSE]]
    /\ UNCHANGED <<promoted, objects, photos, calls, crossed>>

\* The browser's PUT under the signed address, whenever it arrives, whatever it
\* brings and however often.
Put(k, content) ==
    /\ grants[k] # Nothing
    /\ objects' = [objects EXCEPT ![k] = content]
    /\ UNCHANGED <<promoted, grants, photos, calls, crossed>>

GrantExpires(k) ==
    /\ grants[k] # Nothing
    /\ ~ grants[k].used
    /\ grants' = [grants EXCEPT ![k].used = TRUE]
    /\ UNCHANGED <<promoted, objects, photos, calls, crossed>>

\* Mutants: a key is anybody's who knows it; a claim leaves the grant open.
GrantedAtAll(grant, scope, owner) == grant # Nothing /\ ~ grant.used
StillGranted(grant) == grant

GrantedTo(grant, scope, owner) ==
    /\ grant # Nothing
    /\ grant.scope = scope /\ grant.owner = owner
    /\ ~ grant.used

Consumed(grant) == [grant EXCEPT !.used = TRUE]

\* confirm: the draft or the member is found and the key claimed ...
Claim(r, scope, owner, k) ==
    /\ calls[r] = Nothing
    /\ owner \in Found(scope)
    /\ GrantedTo(grants[k], scope, owner)
    /\ grants' = [grants EXCEPT ![k] = Consumed(@)]
    /\ Goes(r, [step |-> "head", scope |-> scope, owner |-> owner, key |-> k])
    /\ Crossing(scope, owner)
    /\ UNCHANGED <<promoted, objects, photos>>

\* ... the object looked at: nothing there, a picture, or something to delete ...
Head(r) ==
    LET request == calls[r]
    IN  /\ At(r, "head")
        /\ \/ /\ objects[request.key] = "none"
              /\ Ends(r)
              /\ UNCHANGED objects
           \/ /\ objects[request.key] = "unfit"
              /\ Ends(r)
              /\ Deletes(request.key)
           \/ /\ objects[request.key] = "jpeg"
              /\ Goes(r, [request EXCEPT !.step = "previous"])
              /\ UNCHANGED objects
        /\ UNCHANGED <<promoted, grants, photos, crossed>>

\* The object of the row before is deleted once the row says otherwise.
Replaces(r, request, previous) ==
    IF previous \in {Nothing, request.key} THEN Ends(r)
    ELSE Goes(r, [step |-> "delete", scope |-> request.scope,
                  owner |-> request.owner, key |-> previous])

\* ... the row before read: of a draft with nothing held, of a member under its
\* lock, so that row is written in the same step; where there is no row there is
\* nothing to lock ...
Previous(r) ==
    LET request == calls[r]
        row == photos[request.scope][request.owner]
    IN  /\ At(r, "previous")
        /\ IF request.scope = "members" /\ row # Nothing
           THEN /\ Writes(request.scope, request.owner, request.key)
                /\ Replaces(r, request, row)
           ELSE /\ Goes(r, [step |-> "write", scope |-> request.scope,
                            owner |-> request.owner, key |-> request.key,
                            previous |-> row])
                /\ UNCHANGED photos
        /\ UNCHANGED <<promoted, grants, objects, crossed>>

\* ... and the row written.  A new row of a draft waits for the draft's lock
\* (its foreign key); one that is there already does not.
Write(r) ==
    LET request == calls[r]
    IN  /\ At(r, "write")
        /\ request.scope = "drafts" /\ photos["drafts"][request.owner] = Nothing
             => ~ DraftLocked(request.owner)
        /\ Writes(request.scope, request.owner, request.key)
        /\ Replaces(r, request, request.previous)
        /\ UNCHANGED <<promoted, grants, objects, crossed>>

DeleteObject(r) ==
    /\ At(r, "delete")
    /\ Deletes(calls[r].key)
    /\ Ends(r)
    /\ UNCHANGED <<promoted, grants, photos, crossed>>

\* DELETE /signup/photo: the draft is found, then the row deleted, then its object.
RemoveDraftPhoto(r, d) ==
    /\ calls[r] = Nothing
    /\ d \in Found("drafts")
    /\ Goes(r, [step |-> "remove", scope |-> "drafts", owner |-> d])
    /\ Crossing("drafts", d)
    /\ UNCHANGED <<promoted, grants, objects, photos>>

RemoveRow(r) ==
    LET d == calls[r].owner
        row == photos["drafts"][d]
    IN  /\ At(r, "remove")
        /\ Writes("drafts", d, Nothing)
        /\ IF row = Nothing THEN Ends(r)
           ELSE Goes(r, [step |-> "delete", scope |-> "drafts", owner |-> d, key |-> row])
        /\ UNCHANGED <<promoted, grants, objects, crossed>>

\* DELETE /admin/members/:id/photo.
RemoveMemberPhoto(r, m) ==
    /\ calls[r] = Nothing
    /\ photos["members"][m] # Nothing
    /\ Writes("members", m, Nothing)
    /\ Goes(r, [step |-> "delete", scope |-> "members", owner |-> m,
                key |-> photos["members"][m]])
    /\ UNCHANGED <<promoted, grants, objects, crossed>>
-----------------------------------------------------------------------------
\* POST /complete, under the lock of the draft: the photograph is copied ...
Complete(r, d) ==
    /\ calls[r] = Nothing
    /\ d \in Found("drafts")
    /\ ~ DraftLocked(d)
    /\ Goes(r, [step |-> "join", scope |-> "members", owner |-> d,
                photo |-> photos["drafts"][d]])
    /\ crossed' = IF \E q \in Calls : HasPhotoOf(q, d)
                  THEN crossed \cup {d} ELSE crossed
    /\ UNCHANGED <<promoted, grants, objects, photos>>

\* ... the row of the draft, whatever it says by now, deleted, and all of it
\* committed.
CompleteEnd(r) ==
    LET d == calls[r].owner
    IN  /\ At(r, "join")
        /\ photos' = [photos EXCEPT !["members"][d] = calls[r].photo,
                                    !["drafts"][d] = Nothing]
        /\ promoted' = promoted \cup {d}
        /\ Ends(r)
        /\ UNCHANGED <<grants, objects, crossed>>

\* A refusal, a lost connection or a stop: what was claimed stays claimed.
CallFails(r) ==
    /\ calls[r] # Nothing
    /\ Ends(r)
    /\ UNCHANGED <<promoted, grants, objects, photos, crossed>>
-----------------------------------------------------------------------------
Step(r) ==
    \/ Head(r)
    \/ Previous(r)
    \/ Write(r)
    \/ DeleteObject(r)
    \/ RemoveRow(r)
    \/ CompleteEnd(r)
    \/ CallFails(r)

PhotosNext ==
    \/ \E k \in Keys :
         \/ \E scope \in Scopes, owner \in Owners : UploadUrl(scope, owner, k)
         \/ \E content \in {"jpeg", "unfit"} : Put(k, content)
         \/ GrantExpires(k)
    \/ \E r \in Calls :
         \/ \E scope \in Scopes, owner \in Owners, k \in Keys :
              Claim(r, scope, owner, k)
         \/ \E d \in Drafts : RemoveDraftPhoto(r, d) \/ Complete(r, d)
         \/ \E m \in Owners : RemoveMemberPhoto(r, m)
         \/ Step(r)

PhotosSpec == PhotosInit /\ [][PhotosNext]_photoVars
-----------------------------------------------------------------------------
\* The photograph on a record is one that was granted to that member, or to the
\* registration the member came from, and it is on no other record: a key that
\* leaks or is sent twice shows nobody else's face and is deleted by nobody else.
KeysAreTheirs ==
    \A s, t \in Scopes : \A o, p \in Owners :
        LET k == photos[s][o]
        IN  k # Nothing =>
              /\ grants[k] # Nothing /\ grants[k].owner = o
              /\ k = photos[t][p] => s = t /\ o = p

\* Rows are written and objects deleted in steps of different requests, some of
\* them outside any transaction: still no row refers to an object that was
\* deleted, except of a member whose registration was completed while one of
\* those requests was at work on the photograph.
PhotosOnFile ==
    \A s \in Scopes : \A o \in Owners \ crossed :
        photos[s][o] # Nothing => objects[photos[s][o]] # "none"

\* What the registration page says: the photograph appears on the record.
JoinedPhotosOnFile ==
    \A m \in Drafts \cap promoted :
        photos["members"][m] # Nothing => objects[photos["members"][m]] # "none"
=============================================================================
