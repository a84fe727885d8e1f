------------------------------ MODULE MediaUploads ------------------------------
(***************************************************************************)
(* Uploaded files: a row per file (MediaFile), the object in storage, and  *)
(* what shows the file: images of a property, a unit or a FLEX listing     *)
(* (Home), and the slots that hold one file, a profile's avatar and its    *)
(* documents (Slot).  Confirmations read the file, wait for its object and *)
(* only then write; the hourly job deletes what nobody confirmed.          *)
(***************************************************************************)
EXTENDS Naturals, FiniteSets

CONSTANTS File, Home, Slot,
          Request,        \* requests that confirm or edit; a request that creates
                          \* an image gives it its identifier
          Uploader,
          ownerOf,        \* whose slot it is, for the slots that ask: documents
          Nothing
ASSUME SlotsAssumption == ownerOf \in [Slot -> Uploader \union {Nothing}]
ASSUME UploadsAreFinite == IsFiniteSet(Request) /\ IsFiniteSet(Slot)
ASSUME NothingIsNone ==
  Nothing \notin File \union [home : Home, file : File, primary : BOOLEAN]

VARIABLES file,           \* MediaFile: status and uploader
          stored,         \* the objects in storage
          old,            \* files made more than two hours ago
          image,          \* image rows, by identifier
          shown,          \* the file in each slot
          request,        \* the requests in flight
          doomed,         \* objects whose deletion was asked and not awaited
          sweep,          \* the job: the files it has still to delete, and the one
                          \* whose object it has deleted
          overlapped      \* files two handlers held at once, homes two transactions did
uploadVars == <<file, stored, old, image, shown, request, doomed, sweep, overlapped>>

Idle == [pc |-> "idle"]
NoSweep == [todo |-> {}, gone |-> Nothing]
Images(h) == {i \in Request : image[i] # Nothing /\ image[i].home = h}
Shown(f) == \/ \E i \in Request : image[i] # Nothing /\ image[i].file = f
            \/ \E s \in Slot : shown[s] = f
Holding(f) == {r \in Request : request[r].pc \in {"wait", "clear", "insert", "fill"}
                                 /\ request[r].file = f}
Sweeping(f) == f \in sweep.todo \/ sweep.gone = f

UploadsInit ==
  /\ file = [f \in File |-> [status |-> "ABSENT", by |-> Nothing]]
  /\ stored = {} /\ old = {} /\ doomed = {} /\ overlapped = {}
  /\ image = [i \in Request |-> Nothing]
  /\ shown = [s \in Slot |-> Nothing]
  /\ request = [r \in Request |-> Idle]
  /\ sweep = NoSweep

(* createPresign: the row is PENDING and the client may upload.             *)
Presign(f, u) ==
  /\ file[f].status = "ABSENT"
  /\ file' = [file EXCEPT ![f] = [status |-> "PENDING", by |-> u]]
  /\ UNCHANGED <<stored, old, image, shown, request, doomed, sweep, overlapped>>

(* The client, by a link that ends long before the file is old.              *)
Upload(f) ==
  /\ file[f].status # "ABSENT" /\ f \notin old \union stored
  /\ stored' = stored \union {f}
  /\ UNCHANGED <<file, old, image, shown, request, doomed, sweep, overlapped>>

Grow(f) ==
  /\ file[f].status = "PENDING" /\ f \notin old
  /\ old' = old \union {f}
  /\ UNCHANGED <<file, stored, image, shown, request, doomed, sweep, overlapped>>

(* resolveMediaFileForUser: a PENDING file, and the user's where it is asked. *)
Confirmable_Any(f) == file[f].status # "ABSENT"
Confirmable(f) == file[f].status = "PENDING"
Mine(f, s) == ownerOf[s] # Nothing => file[f].by = ownerOf[s]

Resolve(r, f, where, primary) ==
  /\ request[r] = Idle /\ image[r] = Nothing
  /\ Confirmable(f)
  /\ where \in Slot => Mine(f, where)
  /\ request' = [request EXCEPT ![r] =
                   [pc |-> "wait", file |-> f, where |-> where, primary |-> primary]]
  /\ overlapped' = IF Holding(f) # {} \/ Sweeping(f) THEN overlapped \union {f}
                                                     ELSE overlapped
  /\ UNCHANGED <<file, stored, old, image, shown, doomed, sweep>>

(* waitForObjectInStorage                                                    *)
Uploaded_Unasked(f) == f \in File
Uploaded(f) == f \in stored
Found(r) ==
  /\ request[r].pc = "wait" /\ Uploaded(request[r].file)
  /\ request' = [request EXCEPT
       ![r].pc = IF request[r].where \in Slot THEN "fill" ELSE "clear"]
  /\ UNCHANGED <<file, stored, old, image, shown, doomed, sweep, overlapped>>

NotFound(r) ==
  /\ request[r].pc = "wait" /\ ~Uploaded(request[r].file)
  /\ request' = [request EXCEPT ![r] = Idle]
  /\ UNCHANGED <<file, stored, old, image, shown, doomed, sweep, overlapped>>

(* The transaction of confirmForX and updatePropertyFlexImage.  Its first     *)
(* statement takes the primary mark off the images it sees, its second writes *)
(* the one image: what is inserted in between keeps its mark.                 *)
Demoted_None(h) == {}
Demoted(h) == Images(h)
InTransaction(h) == {r \in Request : request[r].pc = "insert" /\ request[r].where = h}

Begin(r) ==
  LET h == request[r].where IN
  /\ request[r].pc = "clear"
  /\ request' = [request EXCEPT ![r] =
       [pc |-> "insert", file |-> @.file, where |-> h, primary |-> @.primary,
        seen |-> IF @.primary THEN Demoted(h) ELSE {}]]
  /\ overlapped' = IF InTransaction(h) # {} THEN overlapped \union {h} ELSE overlapped
  /\ UNCHANGED <<file, stored, old, image, shown, doomed, sweep>>

Unmarked(seen) == [i \in Request |-> IF i \in seen /\ image[i] # Nothing
                                     THEN [image[i] EXCEPT !.primary = FALSE] ELSE image[i]]

ConfirmImage(r) ==
  LET q == request[r] IN
  /\ q.pc = "insert" /\ q.file # Nothing
  /\ image' = [Unmarked(q.seen) EXCEPT ![r] =
                 [home |-> q.where, file |-> q.file, primary |-> q.primary]]
  /\ file' = [file EXCEPT ![q.file].status = "CONFIRMED"]
  /\ request' = [request EXCEPT ![r] = Idle]
  /\ UNCHANGED <<stored, old, shown, doomed, sweep, overlapped>>

(* confirmAvatarForProfessional, attachAmbassadorDocuments: a document takes  *)
(* the place of the one before, whose file stays.                            *)
FillSlot(r) ==
  LET q == request[r] IN
  /\ q.pc = "fill"
  /\ shown' = [shown EXCEPT ![q.where] = q.file]
  /\ file' = [file EXCEPT ![q.file].status = "CONFIRMED"]
  /\ request' = [request EXCEPT ![r] = Idle]
  /\ UNCHANGED <<stored, old, image, doomed, sweep, overlapped>>

(* updatePropertyFlexImage: the same transaction, on an image that is there.  *)
(* The request that made the image edits it.                                 *)
Promote(i) ==
  /\ request[i] = Idle /\ image[i] # Nothing
  /\ request' = [request EXCEPT ![i] =
       [pc |-> "clear", file |-> Nothing, where |-> image[i].home, primary |-> TRUE]]
  /\ UNCHANGED <<file, stored, old, image, shown, doomed, sweep, overlapped>>

PromoteCommit(i) ==
  LET q == request[i] IN
  /\ q.pc = "insert" /\ q.file = Nothing
  /\ image' = IF image[i] = Nothing THEN image
              ELSE [Unmarked(q.seen) EXCEPT ![i].primary = TRUE]
  /\ request' = [request EXCEPT ![i] = Idle]
  /\ UNCHANGED <<file, stored, old, shown, doomed, sweep, overlapped>>

Demote(i) ==
  /\ image[i] # Nothing /\ image[i].primary
  /\ image' = [image EXCEPT ![i].primary = FALSE]
  /\ UNCHANGED <<file, stored, old, shown, request, doomed, sweep, overlapped>>

(* deletePropertyImage, deleteUnitImage, deletePropertyFlexImage: the rows,   *)
(* and then the object, which nobody waits for.                              *)
DeleteImage(i) ==
  /\ image[i] # Nothing
  /\ image' = [image EXCEPT ![i] = Nothing]
  /\ file' = [file EXCEPT ![image[i].file].status = "DELETED"]
  /\ doomed' = doomed \union {image[i].file}
  /\ UNCHANGED <<stored, old, shown, request, sweep, overlapped>>

ObjectDeleted(f) ==
  /\ f \in doomed
  /\ doomed' = doomed \ {f}
  /\ stored' \in {stored, stored \ {f}}
  /\ UNCHANGED <<file, old, image, shown, request, sweep, overlapped>>

(* cleanOrphanedFiles                                                        *)
Orphans_Settled == {f \in old : file[f].status # "DELETED"}
Orphans == {f \in old : file[f].status = "PENDING"}

Sweep ==
  /\ sweep = NoSweep /\ Orphans # {}
  /\ sweep' = [todo |-> Orphans, gone |-> Nothing]
  /\ overlapped' = overlapped \union {f \in Orphans : Holding(f) # {}}
  /\ UNCHANGED <<file, stored, old, image, shown, request, doomed>>

SweepObject(f) ==
  /\ f \in sweep.todo /\ sweep.gone = Nothing
  /\ stored' = stored \ {f}
  /\ sweep' = [todo |-> sweep.todo \ {f}, gone |-> f]
  /\ UNCHANGED <<file, old, image, shown, request, doomed, overlapped>>

SweepRow(f) ==
  /\ sweep.gone = f
  /\ file' = [file EXCEPT ![f].status = "DELETED"]
  /\ sweep' = [sweep EXCEPT !.gone = Nothing]
  /\ UNCHANGED <<stored, old, image, shown, request, doomed, overlapped>>

(* A call that fails: the job goes on with the next file.                     *)
SweepFails(f) ==
  /\ \/ sweep.gone = f /\ sweep' = [sweep EXCEPT !.gone = Nothing]
     \/ /\ f \in sweep.todo /\ sweep.gone = Nothing
        /\ sweep' = [sweep EXCEPT !.todo = @ \ {f}]
  /\ UNCHANGED <<file, stored, old, image, shown, request, doomed, overlapped>>

UploadsNext ==
  \/ \E f \in File :
       \/ Upload(f) \/ Grow(f) \/ ObjectDeleted(f)
       \/ SweepObject(f) \/ SweepRow(f) \/ SweepFails(f)
       \/ \E u \in Uploader : Presign(f, u)
       \/ \E r \in Request : \/ \E w \in Home, p \in BOOLEAN : Resolve(r, f, w, p)
                             \/ \E w \in Slot : Resolve(r, f, w, FALSE)
  \/ \E r \in Request :
       \/ Found(r) \/ NotFound(r) \/ Begin(r) \/ ConfirmImage(r) \/ FillSlot(r)
       \/ Promote(r) \/ PromoteCommit(r) \/ Demote(r) \/ DeleteImage(r)
  \/ Sweep

UploadsSpec == UploadsInit /\ [][UploadsNext]_uploadVars

-----------------------------------------------------------------------------
UploadsTypeOK ==
  /\ file \in [File -> [status : {"ABSENT", "PENDING", "CONFIRMED", "DELETED"},
                        by : Uploader \union {Nothing}]]
  /\ stored \subseteq File /\ old \subseteq File /\ doomed \subseteq File
  /\ image \in [Request -> [home : Home, file : File, primary : BOOLEAN] \union {Nothing}]
  /\ shown \in [Slot -> File \union {Nothing}]
  /\ overlapped \subseteq File \union Home

(* What is shown was confirmed and is in storage, in one place, unless two      *)
(* handlers held the file at once: the confirmation reads the file and, seconds *)
(* later, writes without looking again (media.service.ts:121), while the job    *)
(* deletes what was PENDING when it listed it (media-cleanup.job.ts:19).        *)
ShownFileIsThere ==
  \A f \in File \ overlapped : Shown(f) =>
    /\ file[f].status = "CONFIRMED" /\ f \in stored
    /\ Cardinality({i \in Request : image[i] # Nothing /\ image[i].file = f})
         + Cardinality({s \in Slot : shown[s] = f}) = 1

(* A home has at most one primary image, unless two transactions marked images  *)
(* of it at once (media.service.ts:39-46).                                      *)
OnePrimary ==
  \A h \in Home \ overlapped : Cardinality({i \in Images(h) : image[i].primary}) <= 1

(* What is shown is there, and of what is shown one image is first.           *)
ShownRight == ShownFileIsThere /\ OnePrimary
=============================================================================
