-------------------------------- MODULE Build --------------------------------
(***************************************************************************)
(* The Makefiles of mem_benchmarks, fs_benchmarks and nw_benchmarks, the   *)
(* directory bin that they share, and pagefault, which maps the temp_file  *)
(* made there (mem_benchmarks/pagefault_time.cpp, scripts/runpagefault.py).*)
(*                                                                         *)
(* Of each folder one object is modelled: pagefault_time.o of mem and      *)
(* filecache_size.o of fs, whose rules write temp_file before they         *)
(* compile, and of nw the clients, which include netconfig.h. A target is  *)
(* never the name of a file, so that every make links again; an object     *)
(* depends on its .cpp file alone, not on the headers. The compiler and the *)
(* linker read and write in one step: a clean or an edit while one of them *)
(* runs on the same folder comes before or after it.                       *)
(***************************************************************************)
EXTENDS Integers, FiniteSetsExt

CONSTANTS MemSize, FsSize,   \* 4G and 16G, what the rules write to temp_file
          Mapped,            \* what pagefault maps and touches, 4 GB
          MaxEdits           \* bound on the edits of netconfig.h

ASSUME BuildAssumption == /\ MemSize \in Nat \ {0} /\ FsSize \in Nat \ {0}
                          /\ Mapped \in Nat /\ Mapped <= MemSize
                          /\ MaxEdits \in Nat

Folders == {"mem", "fs", "nw"}
Heads == {"mem", "fs"}
Size_SmallMem == [mem |-> MemSize - 1, fs |-> FsSize]
Size == [mem |-> MemSize, fs |-> FsSize]
None == -1

VARIABLES
  pc,        \* what a make of the folder does: idle, head, writing, compile, link
  header,    \* how often netconfig.h was edited
  edited,    \* the folders whose .cpp file is newer than its object
  object,    \* the version of netconfig.h in the folder's object, or None
  binary,    \* the same of its program in bin
  temp,      \* the size of bin/temp_file, or None
  writers,   \* the folders whose head writes to the present temp_file
  pagefault, \* what a run of pagefault has mapped: nothing, the present
             \* temp_file, or one that was removed
  orphan,    \* the size of that removed file
  \* No variables of the code:
  cleaned,   \* the version of netconfig.h when the folder was last cleaned
  spoiled,   \* the folders whose temp_file was spoiled since they wrote it: by the
             \* clean of another folder or of their own in the middle of a make, by
             \* the smaller file of another, or by a head that failed
  disturbed  \* the run of pagefault began on a spoiled or half written file, or a
             \* make began to write the file during the run

sources == <<header, edited>>
history == <<cleaned, spoiled, disturbed>>
run == <<pagefault, orphan>>
vars == <<pc, sources, object, binary, temp, writers, run, history>>

\* As cloned: nw_benchmarks holds objects, of no certain age.
Init == /\ pc = [f \in Folders |-> "idle"]
        /\ header = 0 /\ edited \in SUBSET {"nw"}
        /\ object = [f \in Folders |-> IF f = "nw" THEN 0 ELSE None]
        /\ binary = [f \in Folders |-> None]
        /\ temp = None /\ writers = {}
        /\ pagefault = "nothing" /\ orphan = None
        /\ cleaned = [f \in Folders |-> 0] /\ spoiled = {} /\ disturbed = FALSE

-----------------------------------------------------------------------------
Goto(f, l) == pc' = [pc EXCEPT ![f] = l]

\* make all
Make(f) == /\ pc[f] = "idle"
           /\ Goto(f, IF object[f] # None /\ f \notin edited THEN "link"
                      ELSE IF f \in Heads THEN "head" ELSE "compile")
           /\ UNCHANGED <<sources, object, binary, temp, writers, run, history>>

\* The shell empties temp_file, whoever else writes to it.
HeadStarts(f) ==
  /\ pc[f] = "head"
  /\ Goto(f, "writing")
  /\ temp' = 0 /\ writers' = writers \cup {f}
  /\ spoiled' = spoiled \cup {g \in Heads : Size[f] < Size[g]}
  /\ disturbed' = TRUE
  /\ UNCHANGED <<sources, object, binary, run, cleaned>>

HeadEnds_Append(f) ==
  /\ pc[f] = "writing"
  /\ Goto(f, "compile")
  /\ temp' = IF f \in writers THEN temp + Size[f] ELSE temp
  /\ spoiled' = IF f \in writers THEN spoiled \ {f} ELSE spoiled \cup {f}
  /\ writers' = writers \ {f}
  /\ UNCHANGED <<sources, object, binary, run, cleaned, disturbed>>

\* Two writers at once go on from where each of them is: the larger size stays.
HeadEnds(f) ==
  /\ pc[f] = "writing"
  /\ Goto(f, "compile")
  /\ temp' = IF f \in writers THEN Max({temp, Size[f]}) ELSE temp
  /\ spoiled' = IF f \in writers THEN spoiled \ {f} ELSE spoiled \cup {f}
  /\ writers' = writers \ {f}
  /\ UNCHANGED <<sources, object, binary, run, cleaned, disturbed>>

\* The disk is full: the file stays as it is and make stops.
HeadFails(f) ==
  /\ pc[f] = "writing"
  /\ Goto(f, "idle")
  /\ writers' = writers \ {f}
  /\ spoiled' = IF f \in writers THEN Heads ELSE spoiled
  /\ UNCHANGED <<sources, object, binary, temp, run, cleaned, disturbed>>

Compile(f) == /\ pc[f] = "compile"
              /\ Goto(f, "link")
              /\ object' = [object EXCEPT ![f] = header]
              /\ edited' = edited \ {f}
              /\ UNCHANGED <<header, binary, temp, writers, run, history>>

\* Without an object, removed meanwhile, the linker fails and make stops.
Link(f) == /\ pc[f] = "link"
           /\ Goto(f, "idle")
           /\ binary' = IF object[f] = None THEN binary
                        ELSE [binary EXCEPT ![f] = object[f]]
           /\ UNCHANGED <<sources, object, temp, writers, run, history>>

\* A file that is mapped outlives its name. If it is still being written its size
\* when pagefault touches it may be anything up to what its writers write.
Removed == /\ temp' = None /\ writers' = {}
           /\ IF pagefault = "present"
                THEN /\ pagefault' = "removed"
                     /\ orphan' \in {temp} \cup {Size[f] : f \in writers}
                ELSE UNCHANGED run

Clean_BinOnly(f) ==
  /\ binary' = [g \in Folders |-> None]
  /\ Removed
  /\ cleaned' = [cleaned EXCEPT ![f] = header]
  /\ spoiled' = spoiled \cup {g \in Heads : g # f \/ pc[g] # "idle"}
  /\ UNCHANGED <<pc, sources, object, disturbed>>

\* make clean: the folder's own objects, but everything in bin.
Clean(f) == /\ object' = [object EXCEPT ![f] = None]
            /\ binary' = [g \in Folders |-> None]
            /\ Removed
            /\ cleaned' = [cleaned EXCEPT ![f] = header]
            /\ spoiled' = spoiled \cup {g \in Heads : g # f \/ pc[g] # "idle"}
            /\ UNCHANGED <<pc, sources, disturbed>>

-----------------------------------------------------------------------------
EditSource(f) == /\ edited' = edited \cup {f}
                 /\ UNCHANGED <<pc, header, object, binary, temp, writers, run, history>>

EditHeader == /\ header < MaxEdits
              /\ header' = header + 1
              /\ UNCHANGED <<pc, edited, object, binary, temp, writers, run, history>>

\* pagefault maps the file; without it, it prints that the allocation failed, and
\* the script, which takes the last word for a number, ends with no average.
Map == /\ binary["mem"] # None /\ pagefault = "nothing"
       /\ temp # None
       /\ pagefault' = "present"
       /\ disturbed' = ("mem" \in spoiled \/ writers # {})
       /\ UNCHANGED <<pc, sources, object, binary, temp, writers, orphan, cleaned, spoiled>>

\* Every page that is mapped is inside the file.
Covered == Mapped <= IF pagefault = "present" THEN temp ELSE orphan

\* The run is over, and its mapping is gone with it.
TouchEnds == /\ pagefault' = "nothing" /\ orphan' = None /\ disturbed' = FALSE
             /\ UNCHANGED <<pc, sources, object, binary, temp, writers, cleaned, spoiled>>

\* posix_madvise() fails: delete[] of the mapping, which is undefined, ends the run,
\* or the return after it does. Nothing is touched and no number is printed.
AdviceFails == /\ pagefault # "nothing"
               /\ TouchEnds

\* A byte of every page is written and timed.
Touch == /\ pagefault # "nothing"
         /\ Covered
         /\ TouchEnds

\* A page behind the end of the file: SIGBUS ends the program, nothing is printed.
TouchFails == /\ pagefault # "nothing"
              /\ ~Covered
              /\ TouchEnds

Next == \/ \E f \in Folders : Make(f) \/ Compile(f) \/ Link(f) \/ Clean(f)
                                \/ EditSource(f)
        \/ \E f \in Heads : HeadStarts(f) \/ HeadEnds(f) \/ HeadFails(f)
        \/ EditHeader \/ Map \/ AdviceFails \/ Touch \/ TouchFails

Spec == Init /\ [][Next]_vars

-----------------------------------------------------------------------------
(* Properties.                                                             *)

TypeOK ==
  /\ pc \in [Folders -> {"idle", "head", "writing", "compile", "link"}]
  /\ header \in 0..MaxEdits /\ edited \subseteq Folders
  /\ object \in [Folders -> None..MaxEdits] /\ binary \in [Folders -> None..MaxEdits]
  /\ temp \in {None, 0, MemSize, FsSize} /\ writers \subseteq Heads
  /\ pagefault \in {"nothing", "present", "removed"}
  /\ orphan \in {None, 0, MemSize, FsSize}
  /\ cleaned \in [Folders -> 0..MaxEdits] /\ spoiled \subseteq Heads
  /\ disturbed \in BOOLEAN

\* make does not see an edit of netconfig.h, but after a clean of its own folder
\* a program has the address that was there at the clean, or a later one. No
\* order of makes, edits and cleans of other folders brings an older one back.
FreshSinceClean == \A f \in Folders : binary[f] # None => binary[f] >= cleaned[f]

\* A folder that has been built has its temp_file in its whole size unless that
\* was spoiled since; and a run of pagefault that began on an unspoiled file, with
\* no make writing it since, is not killed, even if the file is removed under it.
EnoughFile ==
  /\ \A f \in Heads : object[f] # None /\ f \notin spoiled /\ writers = {} =>
                        temp >= Size[f]
  /\ pagefault # "nothing" /\ ~disturbed => Covered
=============================================================================
