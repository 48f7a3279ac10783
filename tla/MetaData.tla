------------------------------- MODULE MetaData -------------------------------
(***************************************************************************)
(* Reading a file's meta data: parse_entry_header and parse_block of       *)
(* src/src/metadata.rs, and read_metadata, the same in both readers.  The  *)
(* small entries are one inflated buffer; of a large entry the buffer has  *)
(* the header, and the value is a zip block of its own among those that    *)
(* follow one another behind it.  A byte is a digit below Radix, a size    *)
(* four of them; those from Ascii on are UTF-8 continuation bytes, which   *)
(* are invalid where they stand.  The buffers are as written, cut short,   *)
(* or have one byte altered; the blocks are as written.                    *)
(***************************************************************************)
EXTENDS Integers, SequencesExt

CONSTANTS
  Radix,     \* 256
  Ascii,     \* 128
  Small,     \* the entries that may be written in the small block
  Big,       \* the large entries that may be written, with their zip sizes
  MaxEntries,
  Slack      \* bytes of the file behind the last zip block

VARIABLES
  pc,        \* "small", "large", and the outcomes "done" and "err"
  written,   \* what the writer put into the buffer
  damage,    \* "none", "cut" or "byte"
  buf,       \* the inflated buffer
  ptr,       \* the next byte of it
  datapos,   \* position of the next zip block, behind the header block
  entries    \* the entries read

Byte == 0..(Radix - 1)
MetaDataType == 0..5

\* What an access out of bounds yields: the program panics.
Panic == -1
Replacement == Radix

-----------------------------------------------------------------------------
(* What a writer writes. *)

Rest(n) == n \div Radix
Digits(n) == <<n % Radix, Rest(n) % Radix, Rest(Rest(n)) % Radix, Rest(Rest(Rest(n)))>>

Header(e) == <<Len(e.key) + 1>> \o e.key \o <<0, e.type>> \o Digits(Len(e.data))
IsLarge(e) == "zip" \in DOMAIN e
EntryBytes(e) == Header(e) \o IF IsLarge(e) THEN Digits(e.zip) ELSE e.data

BytesOf(s) ==
  LET upTo[j \in 0..Len(s)] == IF j = 0 THEN << >> ELSE upTo[j - 1] \o EntryBytes(s[j])
  IN  upTo[Len(s)]

(* Where the zip block of each large entry starts, and where they end. *)
BlockStart[j \in 1..(Len(written) + 1)] ==
  IF j = 1 THEN 0 ELSE BlockStart[j - 1] + written[j - 1].zip

-----------------------------------------------------------------------------
(* The parser. *)

ByteAt(p) == IF p < Len(buf) THEN buf[p + 1] ELSE Panic
Slice(p, n) == [j \in 1..n |-> ByteAt(p + j - 1)]

U32(p) == ByteAt(p) + Radix * (ByteAt(p + 1) + Radix * (ByteAt(p + 2) + Radix * ByteAt(p + 3)))

(* String::from_utf8_lossy. *)
Lossy(key) == [j \in DOMAIN key |-> IF key[j] >= Ascii THEN Replacement ELSE key[j]]

AfterKey == ptr + 1 + ByteAt(ptr)

(* parse_entry_header finds what it needs: key size, key, type, data size. *)
HeaderFits ==
  /\ ptr < Len(buf)
  /\ ByteAt(ptr) > 0 /\ AfterKey <= Len(buf)
  /\ AfterKey < Len(buf) /\ AfterKey + 5 <= Len(buf)
  /\ ByteAt(AfterKey) \in MetaDataType

(* The size counts the terminating NUL, which is not part of the key. *)
Key == Lossy(Slice(ptr + 1, ByteAt(ptr) - 1))
DataSize == U32(AfterKey + 1)
AfterHeader == AfterKey + 5

AddEntry(data) ==
  entries' = Append(entries, [key |-> Key, type |-> ByteAt(AfterKey), data |-> data])

(* Slip: an entry that does not fit is passed over, without a step. *)
FailSilently == UNCHANGED <<pc, ptr, datapos, entries>>

Fail == pc' = "err" /\ UNCHANGED <<ptr, datapos, entries>>

(* Slip: a value that overruns the buffer ends with it. *)
EntryFitsAlways == TRUE

EntryFits == AfterHeader + DataSize <= Len(buf)

(* One turn of parse_block's loop. *)
ParseSmall ==
  /\ pc = "small" /\ ptr < Len(buf)
  /\ IF HeaderFits /\ EntryFits
     THEN /\ AddEntry(Slice(AfterHeader, DataSize))
          /\ ptr' = AfterHeader + DataSize
          /\ UNCHANGED <<pc, datapos>>
     ELSE Fail
  /\ UNCHANGED <<written, damage, buf>>

(* Inflating n bytes at pos to size bytes: what lies behind the end of a   *)
(* zip stream is ignored, anything else that does not match is an error.   *)
Inflates(pos, n, size) ==
  {j \in DOMAIN written :
     /\ BlockStart[j] = pos /\ written[j].zip <= n
     /\ pos + n <= BlockStart[Len(written) + 1] + Slack
     /\ Len(written[j].data) = size}

ZipSize == U32(AfterHeader)

NextPos == datapos + ZipSize

(* One turn of read_metadata's loop over the large entries. *)
ParseLarge ==
  /\ pc = "large" /\ ptr < Len(buf)
  /\ IF HeaderFits /\ AfterHeader + 4 <= Len(buf) /\ Inflates(datapos, ZipSize, DataSize) # {}
     THEN /\ AddEntry(written[CHOOSE j \in Inflates(datapos, ZipSize, DataSize) : TRUE].data)
          /\ ptr' = AfterHeader + 4
          /\ datapos' = NextPos
          /\ UNCHANGED pc
     ELSE Fail
  /\ UNCHANGED <<written, damage, buf>>

(* Slip: the loop ends when less than a header is left. *)
EndEarly ==
  /\ pc \in {"small", "large"} /\ ptr + 7 >= Len(buf)
  /\ pc' = "done"
  /\ UNCHANGED <<written, damage, buf, ptr, datapos, entries>>

End ==
  /\ pc \in {"small", "large"} /\ ptr >= Len(buf)
  /\ pc' = "done"
  /\ UNCHANGED <<written, damage, buf, ptr, datapos, entries>>

-----------------------------------------------------------------------------
(* A file without meta data: the loops have nothing to do. *)
Nothing ==
  /\ pc = "small" /\ written = << >>
  /\ damage = "none" /\ buf = << >>
  /\ ptr = 0 /\ datapos = 0 /\ entries = << >>

Init ==
  /\ \/ pc = "small" /\ written \in SeqOf(Small, MaxEntries)
     \/ pc = "large" /\ written \in SeqOf(Big, MaxEntries)
  /\ \/ damage = "none" /\ buf = BytesOf(written)
     \/ /\ damage = "cut"
        /\ \E n \in 1..(Len(BytesOf(written)) - 1) : buf = SubSeq(BytesOf(written), 1, n)
     \/ /\ damage = "byte"
        /\ \E n \in DOMAIN BytesOf(written), b \in Byte :
             buf = [BytesOf(written) EXCEPT ![n] = b]
  /\ ptr = 0 /\ datapos = 0 /\ entries = << >>

Next == ParseSmall \/ ParseLarge \/ End

-----------------------------------------------------------------------------
(* Whatever the bytes are, no access is out of bounds (parse_block and     *)
(* parse_entry_header index and slice the buffer, metadata.rs:184-234;     *)
(* u32_at panics, format.rs:230-233).                                      *)
NothingPastTheEnd ==
  /\ pc \in {"small", "large", "done", "err"}
  /\ ptr \in 0..Len(buf) /\ datapos \in Nat
  /\ \A j \in DOMAIN entries :
       /\ entries[j].key \in Seq(0..Radix)
       /\ entries[j].type \in MetaDataType
       /\ entries[j].data \in Seq(Byte)

Meant(s) ==
  [j \in DOMAIN s |-> [key |-> Lossy(s[j].key), type |-> s[j].type, data |-> s[j].data]]

(* An intact file's meta data is read as it was written, each large value  *)
(* from its own block, and never refused; a buffer that was cut gives      *)
(* entries only if the cut fell between two, and then those before it      *)
(* (reader.rs:742-778, metadata.rs:184-201).                               *)
OnlyWhatWasWritten ==
  /\ pc = "err" => damage # "none"
  /\ pc = "done" /\ damage # "byte" =>
       \E n \in 0..Len(written) :
         /\ entries = Meant(SubSeq(written, 1, n))
         /\ damage = "none" => n = Len(written)
         /\ buf = BytesOf(SubSeq(written, 1, n))

(* The loops over the entries are over. *)
Ended == pc \in {"done", "err"}
=============================================================================
