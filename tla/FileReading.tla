----------------------------- MODULE FileReading -----------------------------
(***************************************************************************)
(* A file is opened (FileOpen) and, when its meta data is asked for, that  *)
(* is read (MetaData), as PtexReader::read_metadata and                    *)
(* SharedReader::read_metadata of src/src do.  Meta data is only met in    *)
(* files that are all there.                                               *)
(***************************************************************************)
EXTENDS FileOpen, SequencesExt

CONSTANTS
  Opened,    \* files that are opened for their meta data
  Radix, Ascii, Small, Big, MaxEntries, Slack   \* those of MetaData

VARIABLES mpc, written, damage, buf, ptr, datapos, entries

metaVars == <<mpc, written, damage, buf, ptr, datapos, entries>>

M == INSTANCE MetaData WITH pc <- mpc

ASSUME OpenedAssumption == \A f \in Opened : WellFormed(f)

(* Sizes fit the bytes they are written in, an entry is in the block its   *)
(* value calls for, and no zip stream is empty.                            *)
ASSUME MetaDataAssumption ==
  /\ Radix \in Nat \ {0} /\ MaxEntries \in Nat /\ Slack \in Nat
  /\ \A e \in Small \cup Big :
       /\ e.key \in Seq(M!Byte) /\ e.type \in M!MetaDataType /\ e.data \in Seq(M!Byte)
       /\ M!EntryBytes(e) \in Seq(M!Byte)
  /\ \A e \in Small : ~M!IsLarge(e)
  /\ \A e \in Big : M!IsLarge(e) /\ e.zip \in Nat \ {0}

ReadInit ==
  \/ Init /\ M!Nothing
  \/ file \in Opened /\ length = EndOfFile /\ Unread /\ M!Init

Open == Next /\ UNCHANGED metaVars

(* The readers read meta data of a file they have opened. *)
ReadMetaData == pc = "done" /\ M!Next /\ UNCHANGED vars

ReadNext == Open \/ ReadMetaData

ReadSpec ==
  ReadInit /\ [][ReadNext]_<<vars, metaVars>> /\ WF_<<vars, metaVars>>(ReadNext)

-----------------------------------------------------------------------------
(* No access is out of bounds, whatever the bytes (MetaData;               *)
(* metadata.rs:184-234).                                                   *)
NothingPastTheEnd == M!NothingPastTheEnd

(* Intact meta data is read as written, each value from its own block, and *)
(* a cut buffer gives nothing else (MetaData; reader.rs:742-778).          *)
OnlyWhatWasWritten == M!OnlyWhatWasWritten

(* Once a file is open the loops over its meta data end, whatever sizes    *)
(* the buffer claims: a call runs in one thread, which goes on             *)
(* (reader.rs:767).                                                        *)
ParsingEnds == (pc = "done") ~> M!Ended
=============================================================================
