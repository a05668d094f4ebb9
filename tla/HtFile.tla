------------------------------- MODULE HtFile -------------------------------
(***************************************************************************)
(* HtFile (src/HashTable/File.h): a file of fixed-size pages with a free   *)
(* list threaded through the first 8 bytes of the free pages.  The header  *)
(* page 0 keeps the head of the free list and the number of pages ever     *)
(* allocated (fsize); it lives in memory (first_page) and is written only  *)
(* by Flush, so it is part of the record, not of disk.                     *)
(*                                                                         *)
(* A file is a record [disk, first_free, fsize]; the operations are        *)
(* operators from a file to a file, composed by the callers (the hash      *)
(* table runs on one thread, so each call is a plain function).            *)
(*                                                                         *)
(* A page is [next, n, ent]: the first 8 bytes (next bucket or next free   *)
(* page), the second 8 bytes (n_entries) and the remaining words (entry    *)
(* keys of a bucket page, bucket heads of a directory page); 0 is the      *)
(* zero word.                                                              *)
(***************************************************************************)
EXTENDS Naturals, Sequences

CONSTANTS
    PageWords   \* the words of a page the model keeps apart from next and n

ZeroPage == [next |-> 0, n |-> 0, ent |-> [i \in 1..PageWords |-> 0]]

(* HtFile::HtFile with trunc: the file is shorter than a page, so          *)
(* first_page is zeroed: no free page and no page allocated.               *)
NewFile(maxPage) == [disk |-> [p \in 1..maxPage |-> ZeroPage], first_free |-> 0, fsize |-> 0]

(* pread of page p. *)
ReadPage(f, p) == f.disk[p]

(* pwrite of page p. *)
WritePage(f, p, pg) == [f EXCEPT !.disk[p] = pg]

(* AllocatePage: pop the head of the free list, reading its successor from *)
(* the first 8 bytes of the page on disk; else extend the file by a page.  *)
(* The result is [f, page].                                                *)
AllocatePage(f) ==
    IF f.first_free # 0
    THEN [f |-> [f EXCEPT !.first_free = f.disk[f.first_free].next],
          page |-> f.first_free]
    ELSE [f |-> [f EXCEPT !.fsize = @ + 1], page |-> f.fsize + 1]

(* FreePage: write a zero page holding the old head in its first 8 bytes,  *)
(* and make p the head.                                                    *)
FreePage(f, p) ==
    [f EXCEPT !.disk[p] = [ZeroPage EXCEPT !.next = f.first_free],
              !.first_free = p]

(* TruncPage: zero page p on disk. *)
TruncPage(f, p) == [f EXCEPT !.disk[p] = ZeroPage]

(* The pages on the free list, following next from first_free; at most     *)
(* fsize steps, so a cycle ends the walk.                                  *)
RECURSIVE FreeChain(_, _, _)
FreeChain(f, p, fuel) ==
    IF p = 0 \/ fuel = 0 THEN << >>
    ELSE << p >> \o FreeChain(f, f.disk[p].next, fuel - 1)

FreeList(f) == FreeChain(f, f.first_free, f.fsize + 1)
=============================================================================
