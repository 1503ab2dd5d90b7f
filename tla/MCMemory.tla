------------------------------ MODULE MCMemory ------------------------------
(* A small memory for TLC. *)
EXTENDS Memory

MCBootFb == <<12>>
MCDevicePages == {13, 16}
MCHeap == {6, 7}

\* A header that asks for memsz bytes at vaddr, all of them in the file.
Seg(vaddr, memsz) == [offset |-> 4, filesz |-> memsz, vaddr |-> vaddr, memsz |-> memsz]

\* A program in the kernel's heap, as libc/user.ld links it; one above the heap, in
\* two segments that share a page; one that runs over the end of a table and is
\* mostly zeros; one in two tables, which are then shared if no frame is left for
\* them; one whose second segment is not in the file; and headers that are not
\* sound: an end in the file that wraps, more bytes than memory, an end in memory
\* that wraps.
MCImages ==
  { <<Seg(12, 2)>>,
    <<Seg(16, 1), Seg(17, 1)>>,
    <<[Seg(22, 4) EXCEPT !.filesz = 1]>>,
    <<Seg(34, 2), Seg(16, 2)>>,
    <<Seg(34, 2), [Seg(36, 2) EXCEPT !.offset = 20]>>,
    <<[Seg(16, 2) EXCEPT !.offset = 39]>>,
    <<[Seg(11, 1) EXCEPT !.filesz = 3]>>,
    <<Seg(38, 4)>> }
=============================================================================
