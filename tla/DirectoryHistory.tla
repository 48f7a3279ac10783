--------------------------- MODULE DirectoryHistory ---------------------------
(***************************************************************************)
(* PlainReader with the use of its tile directories observed on the side:  *)
(* which were ever looked up, in which order they last were, and how low   *)
(* the capacity of the list has been.                                      *)
(***************************************************************************)
EXTENDS PlainReader

VARIABLES
  seen,      \* the directories looked up with success
  later,     \* pairs of them, the first last looked up after the second
  lowest     \* the lowest capacity set so far

observers == << seen, later, lowest >>

Use(k) ==
  /\ seen' = seen \cup {k}
  /\ later' = {p \in later : p[1] # k /\ p[2] # k} \cup {<< k, j >> : j \in seen \ {k}}

Observe ==
  /\ IF At("dir") /\ call' # None THEN Use(Key(Top.x)) ELSE UNCHANGED << seen, later >>
  /\ lowest' = IF tile_cache_cap' < lowest THEN tile_cache_cap' ELSE lowest

HInit == Init /\ seen = {} /\ later = {} /\ lowest = tile_cache_cap

HSpec == HInit /\ [][Next /\ Observe]_<< vars, observers >> /\ Fairness

(* The directories kept are always the most recently used ones, most       *)
(* recent first, and as many as were used or as the capacity ever allowed: *)
(* no call, failing or not, pushes out a directory more recently used than *)
(* one it keeps (the doc of tile_cache, reader.rs:57-58, and tile_dir,     *)
(* 573-593).                                                               *)
Gone == seen \ Range(Keys)
MostRecentKept ==
  /\ Range(Keys) \subseteq seen
  /\ \A i, j \in DOMAIN Keys : i < j => << Keys[i], Keys[j] >> \in later
  /\ \A i \in DOMAIN Keys, k \in Gone : << Keys[i], k >> \in later
  /\ Gone # {} => Len(Keys) >= lowest
=============================================================================
