------------------------------- MODULE MCVmm -------------------------------
(* Two levels of tables with nine entries: 81 pages of addresses.  Programs *)
(* use 0 to 35, with their code at 20 and their stack at 26; the kernel uses *)
(* 45 to 53 and, as its window to memory, 54 to 80, after which addresses   *)
(* wrap.  The 18 pages of memory are just what the boot, two programs and   *)
(* the page that they share take: with the heap in use, memory runs out.    *)
(* Page 20 is one of them, as that at 4M, where link.ld puts programs, is.  *)
EXTENDS Vmm

MCMemmap == <<[base |-> 0, length |-> 2, kernel |-> TRUE],
              [base |-> 3, length |-> 23, kernel |-> FALSE]>>

\* A page that is now a table, now a program's or the heap's.
MCNamed == {[base |-> 13, pages |-> 1]}
=============================================================================
