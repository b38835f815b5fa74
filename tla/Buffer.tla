------------------------------- MODULE Buffer -------------------------------
(***************************************************************************)
(* php_http_buffer_t, the growing byte buffer everything else is built on, *)
(* as operators on a record: `mem' is the allocation itself, so `used' and *)
(* `free' are claims about it that an operation can get wrong, and `over'  *)
(* says that a copy ran past it.  A buffer pointer that may be NULL is     *)
(* NoBuffer.  size_t arithmetic that could wrap is taken modulo SizeMod.   *)
(***************************************************************************)
EXTENDS Integers, Sequences

CONSTANTS
  DefaultSize,   \* PHP_HTTP_BUFFER_DEFAULT_SIZE
  SizeMod,       \* SIZE_MAX + 1
  Junk,          \* a byte of fresh, uninitialised memory
  Nul            \* the terminating zero byte of php_http_buffer_fix()

ASSUME BufferAssumption ==
  /\ DefaultSize \in Nat \ {0}
  /\ SizeMod \in Nat
  /\ DefaultSize < SizeMod

NoBuffer == [size |-> 0, used |-> 0, free |-> 0, mem |-> <<>>, over |-> FALSE]

\* What a reader of the buffer sees: php_http_buffer_data().
BufferData(b) == SubSeq(b.mem, 1, b.used)

BufferInit(chunk_size, prealloc) ==
  LET size == IF chunk_size # 0 THEN chunk_size ELSE DefaultSize
      free == IF prealloc THEN size ELSE 0
  IN  [size |-> size, used |-> 0, free |-> free,
       mem |-> [i \in 1 .. free |-> Junk], over |-> FALSE]

\* perealloc(): the old bytes are kept as far as both allocations reach.
Realloc(mem, n) == [i \in 1 .. n |-> IF i <= Len(mem) THEN mem[i] ELSE Junk]

\* while (size + free < len) size <<= 1;
Doubled(size, free, len) ==
  LET doubled[k \in 0 .. len] ==
        IF k = 0 THEN size
        ELSE IF doubled[k - 1] + free < len THEN 2 * doubled[k - 1] ELSE doubled[k - 1]
  IN  doubled[len]

Grown(b, n) == [b EXCEPT !.mem = Realloc(@, b.used + b.free + n), !.free = @ + n]

BufferResize(b, len, override_size) ==
  IF b.free >= len THEN b
  ELSE Grown(b, Doubled(IF override_size # 0 THEN override_size ELSE b.size, b.free, len))

\* memcpy() of str to offset `at'; what lies past the allocation is only noted.
Copy(b, at, str) ==
  [b EXCEPT !.mem = [i \in DOMAIN @ |->
                       IF i > at /\ i <= at + Len(str) THEN str[i - at] ELSE @[i]],
            !.over = @ \/ at + Len(str) > Len(b.mem)]

\* php_http_buffer_account(): its caller has filled `str' in behind the used bytes.
BufferAccount(b, n) == [b EXCEPT !.used = @ + n, !.free = @ - n]

\* Mutant: the write goes to the start of the data.
FilledAtStart(b, str) == BufferAccount(Copy(b, 0, str), Len(str))

\* Bytes put behind the used ones, and counted.
Filled(b, str) == BufferAccount(Copy(b, b.used, str), Len(str))

BufferAppend(b, str) == Filled(BufferResize(b, Len(str), 0), str)

BufferShrink(b) ==
  IF b.free > 1
  THEN [b EXCEPT !.mem = Realloc(@, b.used + 1), !.free = 1]
  ELSE b

\* memmove() of the tail over the cut bytes; what is behind the used bytes from
\* now on is nobody's.
Moved(b, offset, n) ==
  [b EXCEPT !.mem = [i \in DOMAIN @ |->
                       IF i <= offset THEN @[i]
                       ELSE IF i <= b.used - n THEN @[i + n] ELSE Junk],
            !.used = @ - n, !.free = @ + n,
            !.over = @ \/ n > b.used]

BufferCut(b, offset, length) ==
  IF offset > b.used THEN b
  ELSE Moved(b, offset, IF (offset + length) % SizeMod > b.used
                        THEN b.used - offset ELSE length)

Terminated(b) == Copy(b, b.used, <<Nul>>)

BufferFix(b) == Terminated(BufferResize(b, 1, 1))

BufferReset(b) ==
  [b EXCEPT !.free = @ + b.used, !.used = 0, !.mem = [i \in DOMAIN @ |-> Junk]]

BufferDtor(b) == [b EXCEPT !.mem = <<>>, !.used = 0, !.free = 0]

-----------------------------------------------------------------------------
(* Passing data on in chunks.                                              *)

\* php_http_buffer_chunk_buffer() looped by php_http_buffer_chunked_output():
\* the data is appended once, every full chunk is cut off before it is passed
\* on, and the loop stops at the first chunk passout() refuses (`refuse', 0 for
\* none).  A chunk_len of 0 asks for everything and frees the storage.
StorageFor(s, chunk_len) ==
  IF s = NoBuffer THEN BufferInit(chunk_len * 2, chunk_len # 0) ELSE s

ChunkedOutput(s, data, chunk_len, refuse) ==
  LET storage == BufferAppend(StorageFor(s, chunk_len), data)
      full  == IF chunk_len = 0 THEN (IF storage.used = 0 THEN 0 ELSE 1)
               ELSE storage.used \div chunk_len
      tries == IF refuse \in 1 .. full THEN refuse ELSE full
      len   == IF chunk_len = 0 THEN storage.used ELSE chunk_len
      chunk(i) == SubSeq(BufferData(storage), (i - 1) * len + 1, i * len)
  IN  [buffer |-> IF chunk_len = 0 THEN NoBuffer
                  ELSE BufferCut(storage, 0, tries * chunk_len),
       chunks |-> [i \in 1 .. (IF tries = refuse THEN tries - 1 ELSE tries)
                     |-> chunk(i)],
       failed |-> refuse # 0 /\ tries = refuse]

\* php_http_buffer_chunked_input(): passin() put `got', at most chunk_size
\* bytes, behind the used bytes; or it failed.
ChunkedInput(s, chunk_size, got, failed) ==
  LET str == BufferResize(IF s = NoBuffer THEN BufferInit(chunk_size, TRUE) ELSE s,
                          chunk_size, 0)
  IN  BufferFix(IF failed THEN str
                ELSE Filled(str, got))

\* php_http_buffer_passthru(): passon() is offered everything and takes a
\* prefix, `taken' bytes of it.
Passthru(s, chunk_size, got, taken) ==
  BufferCut(ChunkedInput(s, chunk_size, got, FALSE), 0, taken)
=============================================================================
