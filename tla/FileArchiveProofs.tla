-------------------------- MODULE FileArchiveProofs --------------------------
(***************************************************************************)
(* Proofs about FileArchive for any number of calls, any files, any limit  *)
(* and whatever the parsers accept.                                        *)
(***************************************************************************)
EXTENDS FileArchive, TLAPS

-----------------------------------------------------------------------------
(* The inductive invariant *)

\* No more was read than the file has; whoever reads, or has read, has a body;
\* and no upload is asked for before the body was read.
BodyInv ==
    \A c \in Calls :
        /\ body[c] # Nothing => body[c].got <= Length[body[c].file]
        /\ call[c] \in {"reading", "read", "storing", "returned"} => body[c] # Nothing
        /\ call[c] \in {"idle", "requesting", "reading", "read"} => upload[c] = "none"

\* Only what was accepted is uploaded, and a success is one the bucket confirmed.
UploadInv ==
    \A c \in Calls :
        /\ upload[c] # "none" => body[c] # Nothing /\ Accepts(c)
        /\ status[c] \in {"inflight", "ended"} => upload[c] # "none"
        /\ status[c] \in {"new", "inflight"} => upload[c] \in {"none", "asked"}
        /\ c \in applied => upload[c] # "none" /\ KeyOf(c) \in DOMAIN bucket
        /\ upload[c] = "stored" => c \in applied
        /\ call[c] = "returned" => upload[c] = "stored"

\* A key determines its content, which was accepted for the operation it names.
BucketInv ==
    \A key \in DOMAIN bucket :
        /\ bucket[key] = key[2]
        /\ key[2][2] \in 1 .. MaxChunks
        /\ key[1] \in Parsing => key[2] \in Readable[key[1]]

IInv == TypeOK /\ BodyInv /\ UploadInv /\ BucketInv

LEMMA InitIInv == Init => IInv
  <1> SUFFICES ASSUME Init
               PROVE  IInv
    OBVIOUS
  <1>1. TypeOK
    BY DEF Init, TypeOK, CallState, store!Init, store!TypeOK
  <1>2. BodyInv /\ UploadInv /\ BucketInv
    BY DEF Init, BodyInv, UploadInv, BucketInv, store!Init
  <1>3. QED
    BY <1>1, <1>2 DEF IInv

\* The content and the key of a call with a body.
LEMMA ContentType ==
    ASSUME IInv, NEW c \in Calls, body[c] # Nothing
    PROVE  /\ body[c] \in Body
           /\ Content(c) \in Contents
           /\ KeyOf(c) \in Keys
           /\ KeyOf(c)[1] = operation[c] /\ KeyOf(c)[2] = Content(c)
           /\ Content(c)[2] = body[c].got
  <1>1. body[c] \in Body
    BY DEF IInv, TypeOK
  <1>2. body[c].file \in Files /\ body[c].got \in Nat
    BY <1>1, MaxChunksPositive DEF Body
  <1>3. body[c].got <= Length[body[c].file]
    BY DEF IInv, BodyInv
  <1>4. Content(c) \in Contents
    BY <1>2, <1>3 DEF Content, Contents
  <1>5. operation[c] \in Operations
    BY DEF IInv, TypeOK
  <1>6. QED
    BY <1>1, <1>4, <1>5 DEF KeyOf, Keys, Content

-----------------------------------------------------------------------------
(* Steps *)

\* Going from one place to another keeps the invariant if the places fit what
\* the call has done.
LEMMA MovesKeepsIInv ==
    ASSUME IInv, NEW c \in Calls, NEW from, NEW to,
           Moves(c, from, to),
           \/ from = "idle" /\ to = "requesting"
           \/ from = "reading" /\ to = "read"
           \/ from = "storing" /\ to = "returned" /\ upload[c] = "stored"
           \/ to \in {"raised", "cancelled"}
    PROVE  IInv'
  <1>1. call' = [call EXCEPT ![c] = to] /\ UNCHANGED <<operation, body, storage>>
    BY DEF Moves
  <1>2. to \in CallState
    BY DEF CallState, Suspended
  <1>3. TypeOK'
    BY <1>1, <1>2 DEF IInv, TypeOK, storage, store!TypeOK
  <1>4. ASSUME NEW d \in Calls
        PROVE  call'[d] = IF d = c THEN to ELSE call[d]
    BY <1>1 DEF IInv, TypeOK
  <1>5. BodyInv'
    BY <1>1, <1>4 DEF Moves, IInv, BodyInv, storage
  <1>6. UploadInv'
    BY <1>1, <1>4 DEF IInv, UploadInv, storage, Accepts, Content, KeyOf
  <1>7. BucketInv'
    BY <1>1 DEF IInv, BucketInv, storage
  <1>8. QED
    BY <1>3, <1>5, <1>6, <1>7 DEF IInv

LEMMA DownloadingKeepsIInv ==
    ASSUME IInv, NEW c \in Calls, Downloading(c)
    PROVE  IInv'
  <1>1. CASE Request(c) \/ Refused(c) \/ BodyEnds(c) \/ BreaksOff(c)
    BY <1>1, MovesKeepsIInv DEF Request, Refused, BodyEnds, BreaksOff
  <1>2. CASE Respond(c)
    <2>1. PICK f \in Files, framed \in BOOLEAN :
             body' = [body EXCEPT ![c] = [file |-> f, framed |-> framed, got |-> 0]]
      BY <1>2 DEF Respond
    <2> DEFINE new == [file |-> f, framed |-> framed, got |-> 0]
    <2>2. new \in Body /\ new # Nothing /\ new.got = 0 /\ 0 <= Length[new.file]
      BY MaxChunksPositive, LengthOfFiles, NothingIsNoBody DEF Body
    <2>3. /\ call[c] = "requesting"
          /\ call' = [call EXCEPT ![c] = "reading"]
          /\ UNCHANGED <<operation, storage>>
      BY <1>2 DEF Respond
    <2>4. TypeOK'
      BY <2>1, <2>2, <2>3 DEF IInv, TypeOK, storage, CallState, Suspended, store!TypeOK
    <2>5. ASSUME NEW d \in Calls
          PROVE  /\ call'[d] = IF d = c THEN "reading" ELSE call[d]
                 /\ body'[d] = IF d = c THEN new ELSE body[d]
      BY <2>1, <2>3 DEF IInv, TypeOK
    <2> HIDE DEF new
    <2>6. BodyInv'
      BY <2>2, <2>3, <2>5 DEF IInv, BodyInv, storage
    <2>7. upload[c] = "none"
      BY <2>3 DEF IInv, BodyInv
    <2>8. UploadInv'
      <3>1. UNCHANGED <<operation, upload, applied, bucket, status>>
        BY <2>3 DEF storage
      <3>2. ASSUME NEW d \in Calls, d # c
            PROVE  /\ body'[d] = body[d] /\ Content(d)' = Content(d) /\ KeyOf(d)' = KeyOf(d)
                   /\ Accepts(d)' = Accepts(d)
                   /\ call'[d] = call[d]
        BY <2>5, <3>1, <3>2 DEF Accepts, Content, KeyOf
      <3>3. QED
        BY <2>5, <2>7, <3>1, <3>2 DEF IInv, UploadInv
    <2>9. BucketInv'
      BY <2>3 DEF IInv, BucketInv, storage
    <2>10. QED
      BY <2>4, <2>6, <2>8, <2>9 DEF IInv
  <1>3. CASE Chunk(c)
    <2>1. /\ call[c] = "reading"
          /\ Unread(c)
          /\ UNCHANGED <<operation, storage>>
      BY <1>3 DEF Chunk
    <2>2. body[c] # Nothing /\ upload[c] = "none"
      BY <2>1 DEF IInv, BodyInv
    <2>3. CASE TooLong(body[c].got + 1)
      <3>1. Moves(c, "reading", "raised")
        BY <1>3, <2>1, <2>3 DEF Chunk, Moves
      <3>2. QED
        BY <3>1, MovesKeepsIInv
    <2>4. CASE ~TooLong(body[c].got + 1)
      <3> DEFINE new == [body[c] EXCEPT !.got = @ + 1]
      <3>1. body' = [body EXCEPT ![c] = new] /\ UNCHANGED call
        BY <1>3, <2>4 DEF Chunk
      <3>2. body[c] \in Body
        BY <2>2, ContentType
      <3>3. body[c].got \in Nat /\ Length[body[c].file] \in Nat
        BY <3>2, LengthOfFiles, MaxChunksPositive DEF Body
      <3>4. new \in Body /\ new.got <= Length[new.file]
        BY <2>1, <2>4, <3>2, <3>3, MaxChunksPositive DEF Body, TooLong, Unread
      <3>5. TypeOK'
        BY <2>1, <3>1, <3>4 DEF IInv, TypeOK, storage, store!TypeOK
      <3>6. ASSUME NEW d \in Calls
            PROVE  body'[d] = IF d = c THEN new ELSE body[d]
        BY <3>1 DEF IInv, TypeOK
      <3> HIDE DEF new
      <3>7. new # Nothing
        BY <3>4, NothingIsNoBody
      <3>8. BodyInv'
        <4>1. ASSUME NEW d \in Calls, body'[d] # Nothing
              PROVE  body'[d].got <= Length[body'[d].file]
          BY <3>4, <3>6, <4>1 DEF IInv, BodyInv
        <4>2. QED
          BY <2>1, <2>2, <3>1, <3>6, <3>7, <4>1 DEF IInv, BodyInv, storage
      <3>9. UploadInv'
        BY <2>1, <2>2, <3>1, <3>6 DEF IInv, UploadInv, storage, Accepts, Content, KeyOf
      <3>10. BucketInv'
        BY <2>1 DEF IInv, BucketInv, storage
      <3>11. QED
        BY <3>5, <3>8, <3>9, <3>10 DEF IInv
    <2>5. QED
      BY <2>3, <2>4
  <1>4. QED
    BY <1>1, <1>2, <1>3 DEF Downloading

LEMMA ArchivingKeepsIInv ==
    ASSUME IInv, NEW c \in Calls, Archiving(c)
    PROVE  IInv'
  <1>1. CASE Archive(c)
    <2>1. call[c] = "read" /\ UNCHANGED <<operation, body, applied, bucket, phase, status>>
      BY <1>1 DEF Archive
    <2>2. CASE ~Accepts(c)
      <3>1. Moves(c, "read", "raised")
        BY <1>1, <2>2 DEF Archive, Moves, storage
      <3>2. QED
        BY <3>1, MovesKeepsIInv
    <2>3. CASE Accepts(c)
      <3>1. /\ call' = [call EXCEPT ![c] = "storing"]
            /\ upload' = [upload EXCEPT ![c] = "asked"]
        BY <1>1, <2>3 DEF Archive
      <3>2. TypeOK'
        BY <2>1, <3>1 DEF IInv, TypeOK, CallState, Suspended, store!TypeOK
      <3>3. ASSUME NEW d \in Calls
            PROVE  /\ call'[d] = IF d = c THEN "storing" ELSE call[d]
                   /\ upload'[d] = IF d = c THEN "asked" ELSE upload[d]
        BY <3>1 DEF IInv, TypeOK
      <3>4. BodyInv'
        BY <2>1, <3>3 DEF IInv, BodyInv
      <3>5. body[c] # Nothing
        BY <2>1 DEF IInv, BodyInv
      <3>6. UploadInv'
        BY <2>1, <2>3, <3>3, <3>5 DEF IInv, UploadInv, Accepts, Content, KeyOf
      <3>7. BucketInv'
        BY <2>1 DEF IInv, BucketInv
      <3>8. QED
        BY <3>2, <3>4, <3>6, <3>7 DEF IInv
    <2>4. QED
      BY <2>2, <2>3
  <1>2. CASE PutReturns(c)
    BY <1>2, MovesKeepsIInv DEF PutReturns
  <1>3. CASE Cancel(c)
    BY <1>3, MovesKeepsIInv DEF Cancel
  <1>4. QED
    BY <1>1, <1>2, <1>3 DEF Archiving

\* What the store does to an upload that was asked for.
LEMMA StoringKeepsIInv ==
    ASSUME IInv, NEW c \in Calls, Storing(c)
    PROVE  IInv'
  <1>1. CASE Admit(c)
    <2>1. /\ upload[c] = "asked"
          /\ status' = [status EXCEPT ![c] = "inflight"]
          /\ UNCHANGED <<phase, operation, call, body, upload, applied, bucket>>
      BY <1>1 DEF Admit, store!Admit
    <2>2. TypeOK'
      BY <2>1 DEF IInv, TypeOK, store!TypeOK
    <2>3. BodyInv' /\ BucketInv'
      BY <2>1 DEF IInv, BodyInv, BucketInv
    <2>4. UploadInv'
      BY <2>1 DEF IInv, UploadInv, TypeOK, store!TypeOK, Accepts, Content, KeyOf
    <2>5. QED
      BY <2>2, <2>3, <2>4 DEF IInv
  <1>2. CASE Refuse(c)
    <2>1. /\ upload[c] = "asked"
          /\ status' = [status EXCEPT ![c] = "refused"]
          /\ upload' = [upload EXCEPT ![c] = "failed"]
          /\ UNCHANGED <<phase, operation, call, body, applied, bucket>>
      BY <1>2 DEF Refuse, store!Refuse
    <2>2. TypeOK'
      BY <2>1 DEF IInv, TypeOK, store!TypeOK
    <2>3. BodyInv' /\ BucketInv'
      BY <2>1 DEF IInv, BodyInv, BucketInv, TypeOK
    <2>4. UploadInv'
      BY <2>1 DEF IInv, UploadInv, TypeOK, store!TypeOK, Accepts, Content, KeyOf
    <2>5. QED
      BY <2>2, <2>3, <2>4 DEF IInv
  <1>3. CASE PutObject(c)
    <2>1. /\ status[c] \in {"inflight", "ended"}
          /\ applied' = applied \cup {c}
          /\ bucket' = [key \in DOMAIN bucket \cup {KeyOf(c)} |->
                           IF key = KeyOf(c) THEN Content(c) ELSE bucket[key]]
          /\ UNCHANGED <<operation, call, body, upload, phase, status>>
      BY <1>3 DEF PutObject
    <2>2. upload[c] # "none" /\ body[c] # Nothing /\ Accepts(c)
      BY <2>1 DEF IInv, UploadInv
    <2>3. /\ DOMAIN bucket' = DOMAIN bucket \cup {KeyOf(c)}
          /\ bucket'[KeyOf(c)] = Content(c)
          /\ \A key \in DOMAIN bucket \ {KeyOf(c)} : bucket'[key] = bucket[key]
      BY <2>1
    <2>4. TypeOK'
      BY <2>1, <2>2, <2>3, ContentType DEF IInv, TypeOK, store!TypeOK
    <2>5. BodyInv'
      BY <2>1 DEF IInv, BodyInv
    <2>6. UploadInv'
      BY <2>1, <2>2, <2>3 DEF IInv, UploadInv, Accepts, Content, KeyOf
    <2>7. body[c].got \in 1 .. MaxChunks
      <3>1. body[c].got \in 0 .. MaxChunks
        BY <2>2, ContentType DEF Body
      <3>2. QED
        BY <2>2, <3>1, MaxChunksPositive DEF Accepts
    <2>8. BucketInv'
      BY <2>2, <2>3, <2>7, ContentType DEF IInv, BucketInv, Accepts
    <2>9. QED
      BY <2>4, <2>5, <2>6, <2>8 DEF IInv
  <1>4. CASE EndUpload(c)
    <2>1. PICK outcome \in {"stored", "failed"} :
             /\ outcome = "stored" => Confirmed(c)
             /\ upload' = [upload EXCEPT ![c] = outcome]
      BY <1>4 DEF EndUpload
    <2>2. /\ status[c] = "inflight"
          /\ status' = [status EXCEPT ![c] = "ended"]
          /\ UNCHANGED <<phase, operation, call, body, applied, bucket>>
      BY <1>4 DEF EndUpload, store!End
    <2>3. upload[c] # "none" /\ (call[c] = "returned" => upload[c] = "stored")
      BY <2>2 DEF IInv, UploadInv, TypeOK
    <2>4. TypeOK'
      BY <2>1, <2>2 DEF IInv, TypeOK, store!TypeOK
    <2>5. BodyInv' /\ BucketInv'
      BY <2>1, <2>2, <2>3 DEF IInv, BodyInv, BucketInv, TypeOK
    <2>6. UploadInv'
      BY <2>1, <2>2, <2>3 DEF IInv, UploadInv, TypeOK, store!TypeOK, Accepts, Content, KeyOf,
         Confirmed
    <2>7. QED
      BY <2>4, <2>5, <2>6 DEF IInv
  <1>5. QED
    BY <1>1, <1>2, <1>3, <1>4 DEF Storing

LEMMA StepIInv == IInv /\ [Next]_vars => IInv'
  <1> SUFFICES ASSUME IInv, [Next]_vars
               PROVE  IInv'
    OBVIOUS
  <1>1. CASE UNCHANGED vars
    BY <1>1 DEF vars, storage, IInv, TypeOK, store!TypeOK, BodyInv, UploadInv, BucketInv, Accepts,
       Content, KeyOf
  <1>2. CASE CloseStore
    <2>1. /\ UNCHANGED <<operation, call, body, upload, applied, bucket, status>>
          /\ phase' \in {"draining", "closed"}
      BY <1>2 DEF CloseStore, store!BeginClose, store!ClosePool
    <2>2. QED
      BY <2>1 DEF IInv, TypeOK, store!TypeOK, BodyInv, UploadInv, BucketInv, Accepts, Content,
         KeyOf
  <1>3. QED
    BY <1>1, <1>2, DownloadingKeepsIInv, ArchivingKeepsIInv, StoringKeepsIInv DEF Next

\* What was strengthened until every step preserves it holds of every behaviour.
THEOREM Invariance == Spec => []IInv
  BY InitIInv, StepIInv, PTL DEF Spec

-----------------------------------------------------------------------------
(* Results *)

\* Every variable keeps its type; a download never holds more than the limit.
THEOREM TypeCorrect == Spec => []TypeOK
  BY Invariance, PTL DEF IInv

\* The bytes a caller was told are archived are in the bucket under the key it was
\* given, whatever happens to other calls and to late uploads.
THEOREM ReturnedArchived == Spec => []ReturnedIsArchived
  <1>1. IInv => ReturnedIsArchived
    <2> SUFFICES ASSUME IInv, NEW c \in Calls, call[c] = "returned"
                 PROVE  KeyOf(c) \in DOMAIN bucket /\ bucket[KeyOf(c)] = Content(c)
      BY DEF ReturnedIsArchived
    <2>1. KeyOf(c) \in DOMAIN bucket /\ body[c] # Nothing
      BY DEF IInv, UploadInv
    <2>2. bucket[KeyOf(c)] = KeyOf(c)[2]
      BY <2>1 DEF IInv, BucketInv
    <2>3. QED
      BY <2>1, <2>2, ContentType
  <1>2. QED
    BY <1>1, Invariance, PTL

\* Only originals that were verified, are not empty and keep the limit get archived.
THEOREM VerifiedArchived == Spec => []OnlyVerifiedArchived
  <1>1. IInv => OnlyVerifiedArchived
    BY DEF IInv, BucketInv, OnlyVerifiedArchived
  <1>2. QED
    BY <1>1, Invariance, PTL

\* No upload ever replaces an object by another.
THEOREM NotOverwritten == Spec => NeverOverwritten
  <1>1. IInv /\ IInv' /\ [Next]_vars
           => [\A key \in DOMAIN bucket : bucket'[key] = bucket[key]]_vars
    <2> SUFFICES ASSUME IInv, IInv', Next, NEW key \in DOMAIN bucket
                 PROVE  bucket'[key] = bucket[key]
      OBVIOUS
    <2>1. key \in DOMAIN bucket'
      <3>1. ASSUME NEW c \in Calls, PutObject(c)
            PROVE  DOMAIN bucket' = DOMAIN bucket \cup {KeyOf(c)}
        BY <3>1 DEF PutObject
      <3>2. (\E c \in Calls : PutObject(c)) \/ UNCHANGED bucket
        BY DEF Next, Downloading, Archiving, Storing, Request, Refused, Respond, Chunk, BodyEnds,
           BreaksOff, Archive, PutReturns, Cancel, Admit, Refuse, EndUpload, CloseStore, Moves,
           storage
      <3>3. QED
        BY <3>1, <3>2
    <2>2. bucket[key] = key[2] /\ bucket'[key] = key[2]
      BY <2>1 DEF IInv, BucketInv
    <2>3. QED
      BY <2>2
  <1>2. QED
    BY <1>1, Invariance, PTL DEF Spec, NeverOverwritten
=============================================================================
