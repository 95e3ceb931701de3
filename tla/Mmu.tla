-------------------------------- MODULE Mmu ---------------------------------
(***************************************************************************)
(* Address_Lookup of memory_management_unit.cpp.  A lookup that misses the *)
(* TLB walks the page tables, which lie in memory at addresses that the    *)
(* program does not write: `entry` is what it finds there for a page.      *)
(* After a page fault and after TLB_Insert the lookup calls itself.        *)
(***************************************************************************)
EXTENDS Naturals, Sequences, SequencesExt

CONSTANTS
  Page, NoPage,
  MaxDepth            \* bound: calls of Address_Lookup inside one another

VARIABLES
  TLB,                \* page to whether its permission bits are odd
  entry,              \* page to what the walk finds
  page,               \* the page looked up
  callers,            \* who called each Address_Lookup that is active
  pc,
  specified           \* whether the last return gave a value

vars == <<TLB, entry, page, callers, pc, specified>>

\* No valid directory or table entry; protection bits that Can_access refuses; a
\* page that is not in memory; one that is.
Entry == {"invalid", "protected", "absent", "present"}

Init ==
  /\ TLB = [p \in {} |-> TRUE]
  /\ entry \in [Page -> Entry]
  /\ page = NoPage
  /\ callers = <<>>
  /\ pc = "idle"
  /\ specified = TRUE

Call(p) ==
  /\ pc = "idle"
  /\ page' = p
  /\ callers' = <<"main">>
  /\ pc' = "lookup"
  /\ UNCHANGED <<TLB, entry, specified>>

TLB_Lookup == page \in DOMAIN TLB

\* The errors are constructed and not thrown: the function ends without a return.
Answer(value) ==
  /\ specified' = value
  /\ pc' = "return"
  /\ UNCHANGED <<TLB, entry, page, callers>>

\* The physical address, if permission_check agrees.
Hit == pc = "lookup" /\ TLB_Lookup /\ Answer(TLB[page])

BadEntry ==
  /\ pc = "lookup" /\ ~TLB_Lookup
  /\ entry[page] \in {"invalid", "protected"}
  /\ Answer(FALSE)

Retry(caller) ==
  /\ Len(callers) < MaxDepth
  /\ callers' = Append(callers, caller)
  /\ UNCHANGED <<page, pc, specified>>

\* page_fault_handler has an empty body.
PageFault ==
  /\ pc = "lookup" /\ ~TLB_Lookup
  /\ entry[page] = "absent"
  /\ UNCHANGED <<TLB, entry>>
  /\ Retry("page_fault")

\* TLB_Insert has an empty body.
TLB_Insert ==
  /\ pc = "lookup" /\ ~TLB_Lookup
  /\ entry[page] = "present"
  /\ UNCHANGED <<TLB, entry>>
  /\ Retry("TLB_Insert")

\* What a retry after a page fault returned is dropped, and nothing is returned.
Return ==
  /\ pc = "return"
  /\ callers' = Front(callers)
  /\ pc' = IF callers' = <<>> THEN "idle" ELSE "return"
  /\ specified' = (specified /\ Last(callers) # "page_fault")
  /\ UNCHANGED <<TLB, entry, page>>

Next == (\E p \in Page : Call(p)) \/ Hit \/ BadEntry \/ PageFault \/ TLB_Insert \/ Return

Spec == Init /\ [][Next]_vars

-----------------------------------------------------------------------------
\* "retry and definitely hit 100%": a lookup that is tried again after TLB_Insert
\* finds the page in the TLB.
RetryHits == pc = "lookup" /\ Last(callers) = "TLB_Insert" => TLB_Lookup
=============================================================================
