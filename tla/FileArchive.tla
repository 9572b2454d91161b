----------------------------- MODULE FileArchive -----------------------------
(***************************************************************************)
(* The operations that download a public file and archive the original:    *)
(*   "dataset"      KricFileClient.download_dataset_to_rustfs              *)
(*   "stationInfo"  KricFileClient.get_nationwide_station_info_to_rustfs   *)
(*   "stationCodes" KricFileClient.get_station_codes_to_rustfs             *)
(*   "guideline"    PortGuidelineFileClient.get_locations_to_rustfs        *)
(* (src/kric/files.py, src/kric/port_guidelines.py): read the body under a *)
(* limit, parse it unless the dataset is archived as it comes, and put the *)
(* same bytes into the store under a key with their checksum.              *)
(*                                                                         *)
(* Several calls share one store, of which only the promise is used here:  *)
(* UploadLifecycle, which RustfsStore implements. The bucket sees an       *)
(* upload when its request arrives, be it late, twice, or not at all.      *)
(*                                                                         *)
(* A file is measured in chunks. What was read of it is its first chunks,  *)
(* and a checksum stands for exactly what was read.                        *)
(***************************************************************************)
EXTENDS Naturals, FiniteSets

CONSTANTS
    Calls,           \* calls of the four operations
    Files,           \* versions of the files the providers publish
    Length,          \* chunks of each file
    MaxChunks,       \* max_download_bytes
    Readable,        \* for each operation that parses, what its parser accepts
    Nothing          \* no body yet

Parsing == {"stationInfo", "stationCodes", "guideline"}
Operations == Parsing \cup {"dataset"}
Contents == {content \in Files \X Nat : content[2] <= Length[content[1]]}
Keys == Operations \X Contents

ASSUME CallsFinite == IsFiniteSet(Calls)
ASSUME LengthOfFiles == Length \in [Files -> Nat]
ASSUME MaxChunksPositive == MaxChunks \in Nat \ {0}
ASSUME ReadableContents == Readable \in [Parsing -> SUBSET Contents]

Body == [file : Files, framed : BOOLEAN, got : 0 .. MaxChunks]
ASSUME NothingIsNoBody == Nothing \notin Body

VARIABLES
    operation,       \* which operation each call is
    call,            \* where it is
    body,            \* what it has read of which file; framed: over a transport
                     \* that would notice a body that breaks off
    upload,          \* its upload: not asked for, asked for, stored or failed
    applied,         \* the uploads that have reached the bucket
    bucket,          \* content of each key that exists
    phase, status    \* the store: UploadLifecycle

store == INSTANCE UploadLifecycle WITH Uploads <- Calls

storage == <<upload, applied, bucket, phase, status>>
vars == <<operation, call, body, storage>>

-----------------------------------------------------------------------------
Suspended == {"requesting", "reading", "read", "storing"}
CallState == {"idle", "returned", "raised", "cancelled"} \cup Suspended

TypeOK ==
    /\ operation \in [Calls -> Operations]
    /\ call \in [Calls -> CallState]
    /\ body \in [Calls -> Body \cup {Nothing}]
    /\ upload \in [Calls -> {"none", "asked", "stored", "failed"}]
    /\ applied \subseteq Calls
    /\ DOMAIN bucket \subseteq Keys
    /\ \A key \in DOMAIN bucket : bucket[key] \in Contents
    /\ store!TypeOK

Init ==
    /\ operation \in [Calls -> Operations]
    /\ call = [c \in Calls |-> "idle"]
    /\ body = [c \in Calls |-> Nothing]
    /\ upload = [c \in Calls |-> "none"]
    /\ applied = {}
    /\ bucket = [key \in {} |-> Nothing]
    /\ store!Init

\* A call gets from one place to another and nothing else happens.
Moves(c, from, to) ==
    /\ call[c] = from
    /\ call' = [call EXCEPT ![c] = to]
    /\ UNCHANGED <<operation, body, storage>>

-----------------------------------------------------------------------------
(* Downloading *)

\* The arguments are in order and the request goes out.
Request(c) == Moves(c, "idle", "requesting")

\* No response; or one refused by its status, which includes every redirect; or
\* by a declared length that is no number or above the limit.
Refused(c) == Moves(c, "requesting", "raised")

Respond(c) ==
    /\ call[c] = "requesting"
    /\ call' = [call EXCEPT ![c] = "reading"]
    /\ \E f \in Files, framed \in BOOLEAN :
          body' = [body EXCEPT ![c] = [file |-> f, framed |-> framed, got |-> 0]]
    /\ UNCHANGED <<operation, storage>>

Unread(c) == body[c].got < Length[body[c].file]

Slip_TooLong(chunks) == chunks > MaxChunks + 1
TooLong(chunks) == chunks > MaxChunks

\* The limit counts what was decoded, whatever length was declared.
Chunk(c) ==
    /\ call[c] = "reading"
    /\ Unread(c)
    /\ IF TooLong(body[c].got + 1)
       THEN call' = [call EXCEPT ![c] = "raised"] /\ UNCHANGED body
       ELSE body' = [body EXCEPT ![c].got = @ + 1] /\ UNCHANGED call
    /\ UNCHANGED <<operation, storage>>

\* The body is over: one that is not framed may end anywhere.
BodyEnds(c) ==
    /\ Moves(c, "reading", "read")
    /\ body[c].framed => ~Unread(c)

BreaksOff(c) == Moves(c, "reading", "raised")

-----------------------------------------------------------------------------
(* Archiving *)

Content(c) == <<body[c].file, body[c].got>>

Slip_KeyByVersion(c) == <<operation[c], <<body[c].file, 0>>>>
KeyOf(c) == <<operation[c], Content(c)>>

\* An empty body is refused, and one the parser cannot read.
Slip_AcceptsUnparsed(c) == body[c].got > 0
Accepts(c) ==
    /\ body[c].got > 0
    /\ operation[c] \in Parsing => Content(c) \in Readable[operation[c]]

\* Parsed, hashed and handed to put_bytes without a suspension in between.
Archive(c) ==
    /\ call[c] = "read"
    /\ IF Accepts(c)
       THEN /\ call' = [call EXCEPT ![c] = "storing"]
            /\ upload' = [upload EXCEPT ![c] = "asked"]
       ELSE call' = [call EXCEPT ![c] = "raised"] /\ UNCHANGED upload
    /\ UNCHANGED <<operation, body, applied, bucket, phase, status>>

\* The caller hears of its upload.
Slip_OnlySuccessReturns(c) == upload[c] = "stored" /\ Moves(c, "storing", "returned")
PutReturns(c) ==
    \/ upload[c] = "stored" /\ Moves(c, "storing", "returned")
    \/ upload[c] = "failed" /\ Moves(c, "storing", "raised")

\* A cancelled caller takes its download along, but not its upload.
Cancel(c) == \E where \in Suspended : Moves(c, where, "cancelled")

-----------------------------------------------------------------------------
(* The store *)

Admit(c) ==
    /\ upload[c] = "asked"
    /\ store!Admit(c)
    /\ UNCHANGED <<operation, call, body, upload, applied, bucket>>

Refuse(c) ==
    /\ upload[c] = "asked"
    /\ store!Refuse(c)
    /\ upload' = [upload EXCEPT ![c] = "failed"]
    /\ UNCHANGED <<operation, call, body, applied, bucket>>

\* The request reaches the bucket: while the store waits for it, and perhaps
\* again, or only after the store has given up on it.
PutObject(c) ==
    /\ status[c] \in {"inflight", "ended"}
    /\ applied' = applied \cup {c}
    /\ bucket' = [key \in DOMAIN bucket \cup {KeyOf(c)} |->
                     IF key = KeyOf(c) THEN Content(c) ELSE bucket[key]]
    /\ UNCHANGED <<operation, call, body, upload, phase, status>>

\* A success was confirmed by the bucket; an error says nothing about it.
Slip_ConfirmedUnapplied(c) == TRUE
Confirmed(c) == c \in applied

EndUpload(c) ==
    /\ store!End(c)
    /\ \E outcome \in {"stored", "failed"} :
          /\ outcome = "stored" => Confirmed(c)
          /\ upload' = [upload EXCEPT ![c] = outcome]
    /\ UNCHANGED <<operation, call, body, applied, bucket>>

\* Whoever owns the store closes it, under calls that are not finished.
CloseStore ==
    /\ store!BeginClose \/ store!ClosePool
    /\ UNCHANGED <<operation, call, body, upload, applied, bucket>>

-----------------------------------------------------------------------------
Downloading(c) ==
    Request(c) \/ Refused(c) \/ Respond(c) \/ Chunk(c) \/ BodyEnds(c) \/ BreaksOff(c)

Archiving(c) == Archive(c) \/ PutReturns(c) \/ Cancel(c)

Storing(c) == Admit(c) \/ Refuse(c) \/ PutObject(c) \/ EndUpload(c)

Next ==
    \/ \E c \in Calls : Downloading(c) \/ Archiving(c) \/ Storing(c)
    \/ CloseStore

Spec == Init /\ [][Next]_vars

\* The event loop runs every ready task; httpx bounds the wait for a response and
\* for each part of it; the store answers whom it was asked by, as
\* RustfsStore!PutsComeBack says.
Fairness ==
    \A c \in Calls :
        /\ WF_vars(Refused(c) \/ Respond(c))
        /\ WF_vars(Chunk(c) \/ BodyEnds(c) \/ BreaksOff(c))
        /\ WF_vars(Archive(c))
        /\ WF_vars(PutReturns(c))
        /\ WF_vars(Admit(c) \/ Refuse(c))
        /\ WF_vars(EndUpload(c))

FairSpec == Spec /\ Fairness

-----------------------------------------------------------------------------
(* What must be right about the archive *)

\* A StoredObject that a caller was given names the bytes its table was parsed
\* from, then and ever after, whatever other calls archive, fail or leave behind.
ReturnedIsArchived ==
    \A c \in Calls :
        call[c] = "returned" =>
            KeyOf(c) \in DOMAIN bucket /\ bucket[KeyOf(c)] = Content(c)

\* An object is never replaced by another: a repeated collection of the same
\* original writes the same object, so that retries and late uploads do no harm.
NeverOverwritten ==
    [][\A key \in DOMAIN bucket : bucket'[key] = bucket[key]]_vars

\* get_nationwide_station_info_to_rustfs and its like archive only what they have
\* verified; no original is empty or above the limit. Also those of callers that
\* were cancelled or got an error.
OnlyVerifiedArchived ==
    \A key \in DOMAIN bucket :
        /\ bucket[key][2] \in 1 .. MaxChunks
        /\ key[1] \in Parsing => bucket[key] \in Readable[key[1]]

\* Every call comes back, with a store that is closed under it as well.
CallsComeBack ==
    \A c \in Calls : call[c] \in Suspended ~> call[c] \notin Suspended
=============================================================================
