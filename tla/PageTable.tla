------------------------------ MODULE PageTable ------------------------------
(***************************************************************************)
(* The identity map of src/boot/gdt_pgtable.c: what                        *)
(* boot_build_page_table() leaves in memory, and how it is walked.         *)
(*                                                                         *)
(* Addresses are counted in pages of 4 KiB: only what is below bit 12 is   *)
(* left out.  A layout names the pages of the tables, the granularity and  *)
(* the size of the map; an entry has P, PS and the page it leads to.       *)
(***************************************************************************)
EXTENDS Integers

Fanout == 512                    (* entries of a table, and pages in 2 MiB  *)
Gib    == Fanout * Fanout        (* pages                                   *)

Absent == [p |-> FALSE, ps |-> FALSE, page |-> 0]
Table(page) == [p |-> TRUE, ps |-> FALSE, page |-> page]
Large(page) == [p |-> TRUE, ps |-> TRUE, page |-> page]

(* The tables lie behind one another, as boot_layout_default() has them.   *)
Apart(l) ==
  l.pml4 < l.pdpt /\ l.pdpt < l.pd /\ l.pd < l.pt

Layout == {l \in [gdt : Nat, pml4 : Nat, pdpt : Nat, pd : Nat, pt : Nat,
                  gran : {"2m", "4k"}, map : Nat] : Apart(l)}

(* A PD covers 1 GiB, and there is one.                                    *)
Supported(l) == l.map % Fanout = 0 /\ l.map <= Gib

-----------------------------------------------------------------------------

(* Mutant: the entries of a PT all count from its own start.               *)
PteLocal(l, page, idx) == Table(idx)

(* Entry idx of the PT in a page: the number of the PT is in its place.    *)
Pte(l, page, idx) == Table(Fanout * (page - l.pt) + idx)

Pde(l, idx) ==
  CASE idx >= l.map \div Fanout -> Absent
    [] idx < l.map \div Fanout /\ l.gran = "2m" -> Large(Fanout * idx)
    [] idx < l.map \div Fanout /\ l.gran = "4k" -> Table(l.pt + idx)

(* Entry idx of the table in a page, after boot_build_page_table().        *)
Entry(l, page, idx) ==
  CASE page = l.pml4 -> IF idx = 0 THEN Table(l.pdpt) ELSE Absent
    [] page = l.pdpt -> IF idx = 0 THEN Table(l.pd) ELSE Absent
    [] page = l.pd   -> Pde(l, idx)
    [] OTHER         -> Pte(l, page, idx)

(* Mutant: the page tables of the small granularity are forgotten.         *)
TableTopLarge(l) == l.pd + 1

(* The pages of the GDT and the tables: need_top of boot_layout_validate() *)
(* and boot_hi of check_payload_overlap().                                 *)
TableTop(l) == IF l.gran = "4k" THEN l.pt + l.map \div Fanout ELSE l.pd + 1

-----------------------------------------------------------------------------

Fault == -1

(* boot_dump_page_walk(), which is what the processor does: four levels of *)
(* nine bits, ended by an entry that is absent or maps a large page.       *)
Walk(l, gva) ==
  LET pml4e == Entry(l, l.pml4, (gva \div (Fanout * Gib)) % Fanout)
      pdpe  == Entry(l, pml4e.page, (gva \div Gib) % Fanout)
      pde   == Entry(l, pdpe.page, (gva \div Fanout) % Fanout)
      pte   == Entry(l, pde.page, gva % Fanout)
  IN CASE ~pml4e.p                        -> Fault
       [] pml4e.p /\ ~pdpe.p              -> Fault
       [] pml4e.p /\ pdpe.p /\ pdpe.ps    -> pdpe.page + (gva % Gib)
       [] pml4e.p /\ pdpe.p /\ ~pdpe.ps ->
            CASE ~pde.p            -> Fault
              [] pde.p /\ pde.ps   -> pde.page + (gva % Fanout)
              [] pde.p /\ ~pde.ps  -> IF pte.p THEN pte.page ELSE Fault

(* Linear addresses have 48 bits.                                          *)
Linear == {gva \in Nat : gva \div (Fanout * Gib) < Fanout}

(* The tables map the address to itself, or not at all beyond the map.     *)
MappedToItself(l, gva) == Walk(l, gva) = IF gva < l.map THEN gva ELSE Fault
=============================================================================
