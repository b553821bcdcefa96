---------------------------- MODULE ChunkedUploads ----------------------------
(***************************************************************************)
(* The contents of a chunked upload (src/src/files/): FilesController and   *)
(* FilesService hand its parts to the storage provider of the deployment.   *)
(* LocalStorageProvider appends a part to a temporary file when it arrives  *)
(* and renames the file in the end; AzureStorageProvider stages the part as *)
(* a block under its number and commits the blocks in the client's list;    *)
(* S3StorageProvider takes no part at all.  A request passes its checks     *)
(* before an await and has its effect after it, so requests that overlap    *)
(* take effect in any order.  The quota and the records are in FileStorage. *)
(*                                                                          *)
(* The content of part p is p, so that a file is a sequence of parts.       *)
(* Sizes are in megabytes.                                                  *)
(***************************************************************************)
EXTENDS Integers, FiniteSets, SequencesExt

CONSTANTS
  Uploads,      \* identifiers of uploads
  NumParts,     \* parts of a file
  Connections,  \* requests that may be under way at a time
  MaxSends,     \* bound on the chunk requests of an upload
  MaxCompletes  \* bound on the completions of an upload

ASSUME ChunkedUploadsAssumption ==
  NumParts \in Nat \ {0} /\ MaxSends \in Nat /\ MaxCompletes \in Nat

VARIABLES
  provider,   \* STORAGE_PROVIDER
  opened,     \* uploads the client initialized
  active,     \* LocalStorageProvider.activeUploads
  temp,       \* the temporary files there are
  blocks,     \* blocks staged with Azure
  contents,   \* the files there are
  calls,      \* the requests under way
  acked,      \* parts the client was told are there
  sends,      \* history: chunk requests of an upload
  completed,  \* history: its successful completions
  disorder    \* history: uploads whose client did not send part after part, each
              \* when the one before was answered; "restart" after a restart

uploadVars ==
  <<provider, opened, active, temp, blocks, contents, calls, acked, sends, completed, disorder>>

Parts == 1..NumParts
NoCall == [op |-> "none"]
Calls == {NoCall} \union [op: {"chunk"}, upload: Uploads, part: Parts]
           \union [op: {"complete"}, upload: Uploads]

\* storageProviderFactory
Providers == {"local", "s3", "azure"}

UploadsInit ==
  /\ provider \in Providers
  /\ opened = {} /\ active = {}
  /\ temp = <<>> /\ contents = <<>>
  /\ blocks = [u \in Uploads |-> {}]
  /\ calls = [c \in Connections |-> NoCall]
  /\ acked = [u \in Uploads |-> {}]
  /\ sends = [u \in Uploads |-> 0]
  /\ completed = [u \in Uploads |-> 0]
  /\ disorder = {}

Answered(c) == calls' = [calls EXCEPT ![c] = NoCall]

\* The files with this one, in place of one of its name.
Stored(files, u, file) ==
  [v \in {u} \union DOMAIN files |-> IF v = u THEN file ELSE files[v]]

-----------------------------------------------------------------------------
(* validateFile of the validation module, as the two pipes call it *)

\* The types that a file can be recognized as, in the order they are searched.
Signatures == <<"jpeg", "png", "gif", "webp", "pdf", "zip">>
Kinds == ToSet(Signatures) \union {"other"}
\* mime and ext: the type that MIME type and extension stand for;
\* begins: the type whose signature the contents begin with
FileData == [mime: Kinds, ext: Kinds, begins: Kinds, size: Nat]

\* The first type that the MIME type or the extension declares, 0 for none: of two
\* types that are declared the contents are compared with one.
MatchingSignature(file) ==
  SelectInSeq(Signatures, LAMBDA kind : kind = file.mime \/ kind = file.ext)

\* The pipes of FilesController restrict neither extensions nor MIME types.
ValidFile(file, maxSize) ==
  /\ file.size \in 1..maxSize
  /\ MatchingSignature(file) # 0 => file.begins = Signatures[MatchingSignature(file)]

\* A chunk comes with the name and type of its file, or with neither; only the
\* first one begins like the file.
MaxChunkRequest == 15
ChunkFiles(p) ==
  {file \in [mime: Kinds, ext: Kinds, begins: Kinds, size: 0..(MaxChunkRequest + 1)] :
     file.mime = file.ext /\ (p # 1 => file.begins = "other")}

\* The limit of validateChunkSize is below the one of the controller's pipe.
MaxChunk == 10
AcceptedParts ==
  {p \in Parts : \E file \in ChunkFiles(p) :
     ValidFile(file, MaxChunkRequest) /\ file.size <= MaxChunk}

-----------------------------------------------------------------------------
(* The requests *)

\* The client learns the identifier when the temporary file is there.
InitializeMultipartUpload(u) ==
  /\ u \notin opened
  /\ opened' = opened \union {u}
  /\ IF provider = "local" THEN active' = active \union {u} /\ temp' = Stored(temp, u, <<>>)
                           ELSE UNCHANGED <<active, temp>>
  /\ UNCHANGED <<provider, blocks, contents, calls, acked, sends, completed, disorder>>

\* 'Upload session not found'
HasSession(u) == provider = "local" => u \in active

\* uploadChunk of S3StorageProvider throws.
TakesChunks == provider # "s3"

InTurn(u, p) == p = sends[u] + 1 /\ acked[u] = 1..sends[u]

\* Defect: the answer does not wait for the part to be written.
SendChunkUnawaited(c, u, p) ==
  /\ calls[c] = NoCall /\ u \in opened /\ sends[u] < MaxSends
  /\ p \in AcceptedParts /\ TakesChunks /\ HasSession(u)
  /\ calls' = [calls EXCEPT ![c] = [op |-> "chunk", upload |-> u, part |-> p]]
  /\ acked' = [acked EXCEPT ![u] = @ \union {p}]
  /\ sends' = [sends EXCEPT ![u] = @ + 1]
  /\ disorder' = IF InTurn(u, p) THEN disorder ELSE disorder \union {u}
  /\ UNCHANGED <<provider, opened, active, temp, blocks, contents, completed>>

\* The client sends any part at any time, also once more.
SendChunk(c, u, p) ==
  /\ calls[c] = NoCall /\ u \in opened /\ sends[u] < MaxSends
  /\ p \in AcceptedParts /\ TakesChunks /\ HasSession(u)
  /\ calls' = [calls EXCEPT ![c] = [op |-> "chunk", upload |-> u, part |-> p]]
  /\ sends' = [sends EXCEPT ![u] = @ + 1]
  /\ disorder' = IF InTurn(u, p) THEN disorder ELSE disorder \union {u}
  /\ UNCHANGED <<provider, opened, active, temp, blocks, contents, acked, completed>>

\* appendFile, which makes the file when a completion renamed it meanwhile.
AppendLocally(u, p) ==
  /\ temp' = Stored(temp, u, Append(IF u \in DOMAIN temp THEN temp[u] ELSE <<>>, p))
  /\ UNCHANGED blocks

\* stageBlock
StageBlock(u, p) ==
  /\ blocks' = [blocks EXCEPT ![u] = @ \union {p}]
  /\ UNCHANGED temp

\* The part is written, and the client gets the answer or does not.
UploadChunk(c, u, p, told) ==
  /\ calls[c] = [op |-> "chunk", upload |-> u, part |-> p]
  /\ IF provider = "local" THEN AppendLocally(u, p) ELSE StageBlock(u, p)
  /\ acked' = IF told THEN [acked EXCEPT ![u] = @ \union {p}] ELSE acked
  /\ Answered(c)
  /\ UNCHANGED <<provider, opened, active, contents, sends, completed, disorder>>

\* The client has the answers to all parts, which the request lists in order.
SendComplete(c, u) ==
  /\ calls[c] = NoCall /\ acked[u] = Parts /\ completed[u] < MaxCompletes
  /\ HasSession(u)
  /\ calls' = [calls EXCEPT ![c] = [op |-> "complete", upload |-> u]]
  /\ UNCHANGED <<provider, opened, active, temp, blocks, contents, acked, sends, completed,
                 disorder>>

\* renameSync
RenameTemp(u) ==
  /\ u \in DOMAIN temp
  /\ contents' = Stored(contents, u, temp[u])
  /\ temp' = [v \in DOMAIN temp \ {u} |-> temp[v]]
  /\ active' = active \ {u}
  /\ UNCHANGED blocks

\* commitBlockList takes the blocks of the list, staged now or committed before.
CommitBlocks(u) ==
  /\ Parts \subseteq blocks[u] \/ u \in DOMAIN contents
  /\ contents' = Stored(contents, u, [p \in Parts |-> p])
  /\ blocks' = [blocks EXCEPT ![u] = {}]
  /\ UNCHANGED <<active, temp>>

CompleteMultipartUpload(c, u) ==
  /\ calls[c] = [op |-> "complete", upload |-> u]
  /\ IF provider = "local" THEN RenameTemp(u) ELSE CommitBlocks(u)
  /\ completed' = [completed EXCEPT ![u] = @ + 1]
  /\ Answered(c)
  /\ UNCHANGED <<provider, opened, acked, sends, disorder>>

\* The disk or Azure fails the request, or the temporary file is gone.
CallFails(c) ==
  /\ calls[c] # NoCall
  /\ Answered(c)
  /\ UNCHANGED <<provider, opened, active, temp, blocks, contents, acked, sends, completed,
                 disorder>>

\* What the process had under way is cut off; the sessions are kept in memory.
RestartProcess ==
  /\ active' = {}
  /\ calls' = [c \in Connections |-> NoCall]
  /\ disorder' = disorder \union {"restart"}
  /\ UNCHANGED <<provider, opened, temp, blocks, contents, acked, sends, completed>>

UploadsNext ==
  \/ \E u \in Uploads : InitializeMultipartUpload(u)
  \/ \E c \in Connections, u \in Uploads :
       \/ \E p \in Parts :
            \/ SendChunk(c, u, p)
            \/ \E told \in BOOLEAN : UploadChunk(c, u, p, told)
       \/ SendComplete(c, u)
       \/ CompleteMultipartUpload(c, u)
  \/ \E c \in Connections : CallFails(c)
  \/ RestartProcess

UploadsSpec == UploadsInit /\ [][UploadsNext]_uploadVars

-----------------------------------------------------------------------------
(* Properties *)

UploadsTypeOK ==
  /\ provider \in Providers
  /\ opened \subseteq Uploads /\ active \subseteq opened
  /\ DOMAIN temp \subseteq opened /\ \A u \in DOMAIN temp : temp[u] \in Seq(Parts)
  /\ DOMAIN contents \subseteq opened /\ \A u \in DOMAIN contents : contents[u] \in Seq(Parts)
  /\ blocks \in [Uploads -> SUBSET Parts] /\ acked \in [Uploads -> SUBSET Parts]
  /\ calls \in [Connections -> Calls]
  /\ sends \in [Uploads -> 0..MaxSends]
  /\ completed \in [Uploads -> Nat]
  /\ disorder \subseteq Uploads \union {"restart"}

\* A completed file is its parts in their order: with Azure however they were
\* sent, with the local provider when the client sent one after the other
\* ("we just append to the file in order"), whatever failed or was cut off.
PartsInOrder ==
  \A u \in DOMAIN contents :
    contents[u] = [p \in Parts |-> p] \/ (provider = "local" /\ u \in disorder)

\* A local upload is completed once, also by requests that overlap or that the
\* client repeats, and leaves no temporary file, unless parts came out of turn;
\* other temporary files belong to uploads that a restart or nobody ended.
CompletedOnce ==
  provider = "local" =>
    \A u \in Uploads \ disorder :
      /\ completed[u] <= 1
      /\ u \in DOMAIN temp => completed[u] = 0 /\ (u \in active \/ "restart" \in disorder)

\* What is stored is what was sent, once (the providers).
UploadsRight == UploadsTypeOK /\ PartsInOrder /\ CompletedOnce
=============================================================================
