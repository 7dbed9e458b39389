------------------------------- MODULE XmlLoad -------------------------------
(***************************************************************************)
(* How pugixml's xml_document is loaded, and who owns the memory that its  *)
(* text is in: from a file, from a stream that can seek or one that is     *)
(* read in chunks, and from a buffer that is copied, used in place, or     *)
(* given away; append_buffer(), reset(), and the move of a document.       *)
(*                                                                         *)
(* Each call of a loading function ends in load_buffer_impl(); what comes  *)
(* before it is a step of its own, or one step for each chunk.             *)
(***************************************************************************)
EXTENDS Integers, Sequences, FiniteSets, SequencesExt

CONSTANTS
  Documents,
  Blocks,      \* what the heap has, a bound
  NoBlock,     \* the null pointer
  User,        \* memory that the caller keeps
  Sources,     \* what files and streams hold
  ChunkSize,   \* how much a chunk of a stream holds
  MaxExtras,   \* bound on the calls of append_buffer() for a document
  Failing      \* the calls that may fail: "open", "read", "chunk", "gather",
               \* "extra", "convert", "convert own"

Byte == 0..255

LoadAssumption ==
  /\ NoBlock \notin Blocks \cup {User} /\ User \notin Blocks
  /\ ChunkSize \in Nat \ {0} /\ MaxExtras \in Nat
  /\ Sources \subseteq Seq(Byte)

VARIABLES
  memory,  \* the blocks allocated
  held,    \* _buffer of each document
  extras,  \* the buffers of its extra_buffers
  trees,   \* the memory that the strings of its tree are in
  call     \* the call under way, if stage is not "idle"

loadVars == <<memory, held, extras, trees, call>>

Nul == 0
Idle == [stage |-> "idle"]
Encoding == {"native", "ascii", "other"}  \* 'ascii': Latin-1 that UTF-8 is the same as

Fresh(taken) == CHOOSE b \in Blocks \ taken : TRUE
Room(taken) == Blocks \ taken # {}

Buffers(d) == ({held[d]} \cup ToSet(extras[d])) \ {NoBlock}

\* xml_document::reset(): _destroy() and _create()
ResetBuffers(d) ==
  /\ held' = [held EXCEPT ![d] = NoBlock]
  /\ extras' = [extras EXCEPT ![d] = <<>>]
  /\ trees' = [trees EXCEPT ![d] = {}]
-----------------------------------------------------------------------------
LoadInit ==
  /\ memory = {}
  /\ held = [d \in Documents |-> NoBlock] /\ extras = [d \in Documents |-> <<>>]
  /\ trees = [d \in Documents |-> {}]
  /\ call = Idle

\* What load_buffer_impl() is called with; the room is that of its
\* block.
Loading(d, contents, encoding, mutable, own) ==
  [stage |-> "load", doc |-> d, contents |-> contents, encoding |-> encoding, mutable |-> mutable, own |-> own,
   append |-> FALSE, source |-> <<>>, data |-> <<>>, room |-> 0]

\* zero_terminate_buffer(), for memory that a loading function allocated
Terminated(data, encoding) == IF encoding = "native" THEN Append(data, Nul) ELSE data

LoadingAll(d, contents, encoding, source, data) ==
  [Loading(d, contents, encoding, TRUE, TRUE) EXCEPT !.source = source, !.data = Terminated(data, encoding),
                                                     !.room = Len(data) + 1]

\* load_file_impl(): a file that is not read in full is an error.
LoadFile(d, source, encoding) ==
  /\ call = Idle /\ ResetBuffers(d)
  /\ LET kept == memory \ Buffers(d)
     IN  \/ /\ Failing \cap {"open", "read"} # {}
            /\ memory' = kept /\ UNCHANGED call
         \/ /\ Room(kept)
            /\ memory' = kept \cup {Fresh(kept)}
            /\ call' = LoadingAll(d, Fresh(kept), encoding, source, source)

\* load_stream_data_seek(): a stream may give less than it seems to hold.
LoadStreamSeek(d, source, encoding) ==
  /\ call = Idle /\ ResetBuffers(d)
  /\ LET kept == memory \ Buffers(d)
     IN  \/ /\ "read" \in Failing
            /\ memory' = kept /\ UNCHANGED call
         \/ /\ Room(kept)
            /\ memory' = kept \cup {Fresh(kept)}
            /\ \E n \in 0 .. Len(source) :
                 LET read == SubSeq(source, 1, n)
                 IN  call' = LoadingAll(d, Fresh(kept), encoding, read, read)

\* load_stream_impl(), for a stream that cannot seek
LoadStream(d, source, encoding) ==
  /\ call = Idle /\ ResetBuffers(d)
  /\ memory' = memory \ Buffers(d)
  /\ call' = [stage |-> "chunks", doc |-> d, source |-> source, encoding |-> encoding, rest |-> source,
              chunks |-> <<>>, eof |-> FALSE]

ChunkBlocks == {call.chunks[k].block : k \in DOMAIN call.chunks}

\* Mutant of Abandon: the chunks are left.
AbandonLeaving == call' = Idle /\ UNCHANGED memory

\* An error on the way frees the chunks: auto_deleter.
Abandon == memory' = memory \ ChunkBlocks /\ call' = Idle

ReadChunk ==
  /\ call.stage = "chunks" /\ ~call.eof
  /\ \/ Failing \cap {"chunk", "read"} # {} /\ Abandon
     \/ LET n == IF Len(call.rest) < ChunkSize THEN Len(call.rest) ELSE ChunkSize
            chunk == [block |-> Fresh(memory), data |-> SubSeq(call.rest, 1, n)]
        IN  /\ Room(memory)
            /\ memory' = memory \cup {chunk.block}
            /\ call' = [call EXCEPT !.chunks = Append(@, chunk), !.rest = SubSeq(@, n + 1, Len(@)), !.eof = n < ChunkSize]
  /\ UNCHANGED <<held, extras, trees>>

Gather ==
  /\ call.stage = "chunks" /\ call.eof
  /\ \/ "gather" \in Failing /\ Abandon
     \/ LET data == FlattenSeq([k \in DOMAIN call.chunks |-> call.chunks[k].data])
        IN  /\ Room(memory)
            /\ memory' = (memory \ ChunkBlocks) \cup {Fresh(memory)}
            /\ call' = LoadingAll(call.doc, Fresh(memory), call.encoding, call.source, data)
  /\ UNCHANGED <<held, extras, trees>>

\* load_buffer() and load_buffer_inplace()
LoadBuffer(d, encoding, inplace) ==
  /\ call = Idle /\ ResetBuffers(d)
  /\ memory' = memory \ Buffers(d)
  /\ call' = Loading(d, User, encoding, inplace, FALSE)

\* load_buffer_inplace_own(): the caller allocates the block.
LoadBufferOwn(d, encoding) ==
  /\ call = Idle /\ ResetBuffers(d)
  /\ LET kept == memory \ Buffers(d)
     IN  /\ Room(kept)
         /\ memory' = kept \cup {Fresh(kept)}
         /\ call' = Loading(d, Fresh(kept), encoding, TRUE, TRUE)

AppendBuffer(d, encoding) ==
  /\ call = Idle /\ Len(extras[d]) < MaxExtras
  /\ \/ "extra" \in Failing /\ UNCHANGED <<extras, call>>
     \/ /\ extras' = [extras EXCEPT ![d] = <<NoBlock>> \o @]
        /\ call' = [Loading(d, User, encoding, FALSE, FALSE) EXCEPT !.append = TRUE]
  /\ UNCHANGED <<memory, held, trees>>

\* *out_buffer = buffer
Hold(buffer) ==
  LET d == call.doc
  IN  IF call.append
        THEN extras' = [extras EXCEPT ![d][1] = buffer] /\ UNCHANGED held
        ELSE held' = [held EXCEPT ![d] = buffer] /\ UNCHANGED extras

Parsed(place) == trees' = [trees EXCEPT ![call.doc] = @ \cup {place}]

\* load_buffer_impl(), where the contents are used as they are
LoadInPlace ==
  /\ call.stage = "load" /\ call.mutable /\ call.encoding # "other"
  /\ IF call.own THEN Hold(call.contents) ELSE UNCHANGED <<held, extras>>
  /\ Parsed(call.contents)
  /\ call' = Idle /\ UNCHANGED memory

\* load_buffer_impl(), where convert_buffer() allocates another buffer
LoadConverted ==
  /\ call.stage = "load" /\ ~(call.mutable /\ call.encoding # "other")
  /\ \/ /\ (IF call.own THEN "convert own" ELSE "convert") \in Failing
        /\ UNCHANGED <<memory, held, extras, trees>>
     \/ /\ Room(memory)
        /\ memory' = (memory \ IF call.own THEN {call.contents} ELSE {}) \cup {Fresh(memory)}
        /\ Hold(Fresh(memory)) /\ Parsed(Fresh(memory))
  /\ call' = Idle

\* reset(), and the end of a document
Clear(d) == call = Idle /\ ResetBuffers(d) /\ memory' = memory \ Buffers(d) /\ UNCHANGED call

\* operator=(xml_document&&)
MoveBuffers(d, e) ==
  /\ call = Idle /\ d # e
  /\ memory' = memory \ Buffers(d)
  /\ held' = [held EXCEPT ![d] = held[e], ![e] = NoBlock]
  /\ extras' = [extras EXCEPT ![d] = extras[e], ![e] = <<>>]
  /\ trees' = [trees EXCEPT ![d] = trees[e], ![e] = {}]
  /\ UNCHANGED call

LoadNext ==
  \/ \E d \in Documents, s \in Sources, e \in Encoding :
       LoadFile(d, s, e) \/ LoadStreamSeek(d, s, e) \/ LoadStream(d, s, e)
  \/ \E d \in Documents, e \in Encoding :
       LoadBuffer(d, e, TRUE) \/ LoadBuffer(d, e, FALSE) \/ LoadBufferOwn(d, e) \/ AppendBuffer(d, e)
  \/ ReadChunk \/ Gather \/ LoadInPlace \/ LoadConverted
  \/ \E d, e \in Documents : Clear(d) \/ MoveBuffers(d, e)

LoadSpec == LoadInit /\ [][LoadNext]_loadVars
-----------------------------------------------------------------------------
LoadTypeOK ==
  /\ memory \subseteq Blocks
  /\ held \in [Documents -> Blocks \cup {NoBlock}]
  /\ \A d \in Documents : extras[d] \in Seq(Blocks \cup {NoBlock}) /\ trees[d] \subseteq Blocks \cup {User}
  /\ call.stage \in {"idle", "chunks", "load"}

\* Nothing that was allocated is lost: between calls each block is in the
\* hands of a document, whatever failed on the way.
NothingLost ==
  call = Idle => memory \subseteq UNION {Buffers(d) : d \in Documents}

\* No block is in two hands, of two documents or two buffers of one, and none
\* that is held has been freed: each is freed once.
HeldOnce ==
  LET hands == {h \in Documents \X (0..MaxExtras) : h[2] <= Len(extras[h[1]])}
      At(h) == IF h[2] = 0 THEN held[h[1]] ELSE extras[h[1]][h[2]]
      holding == {h \in hands : At(h) # NoBlock}
  IN  /\ \A h \in holding : At(h) \in memory
      /\ \A h, i \in holding : At(h) = At(i) => h = i

\* The strings of a tree are in memory that is still there and that nobody
\* but its own document, or the caller, will free.
TreesInMemory == \A d \in Documents : trees[d] \subseteq Buffers(d) \cup {User}

\* What a file or stream held is loaded to its end and in order, whatever the
\* size of the chunks, and the zero behind it is within the block.
LoadedWhole ==
  call.stage = "load" /\ call.room > 0 =>
    /\ Len(call.data) <= call.room
    /\ SubSeq(call.data, 1, Len(call.source)) = call.source

(***************************************************************************)
(* Whichever call of a load fails, no block is freed twice or used after;  *)
(* and none is lost, unless a conversion of the caller's own block fails.  *)
(***************************************************************************)
BuffersHeldOnce ==
  /\ LoadTypeOK /\ HeldOnce /\ TreesInMemory /\ LoadedWhole
  /\ "convert own" \in Failing \/ NothingLost
=============================================================================
