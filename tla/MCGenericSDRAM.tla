---------------------------- MODULE MCGenericSDRAM ----------------------------
(* The SDRAM with a controller that issues any command of the table, on a    *)
(* device of two rows, two banks and two columns.                            *)
EXTENDS GenericSDRAM

Bits == {0, 1}
Ones == [k \in 0 .. 3 |-> 1]

Command(cs, ras, cas, we, a, ba) ==
  [cs_n |-> cs, ras_n |-> ras, cas_n |-> cas, we_n |-> we, a |-> a, ba |-> ba, dm |-> 0,
   cke |-> 1, drives |-> TRUE, dq |-> Zero]

Floating(p) == [p EXCEPT !.drives = FALSE]
Writing(p, dm) == [p EXCEPT !.dq = Ones, !.dm = dm]

\* do_nop drives zeros.  Row 1 is opened in either bank and row 0 by a precharge.
\* A write masks no byte, or the first two, of which the second is not kept.
Commands ==
  {Command(1, 0, 0, 0, 0, 0), Floating(Command(0, 1, 1, 1, 0, 0))}
  \cup {Command(0, 0, 1, 1, 1, b) : b \in Bits}
  \cup {Floating(Command(0, 1, 0, 1, 0, 1))}
  \cup {Writing(Command(0, 1, 0, 0, 1 - b, b), 3 * b) : b \in Bits}
  \cup {Command(0, 0, 1, 0, a, 1) : a \in {0, 1024}}
  \cup {Floating(Command(0, 0, 0, 1, 0, 0))}
  \cup {[Command(0, 1, 0, 0, 0, 0) EXCEPT !.cke = 0, !.dq = Ones]}

Strobe(copy, from, to, size, clear, cfrom, cto) ==
  [copy |-> copy, copy_from |-> OFFSET + 4 * from, copy_to |-> OFFSET + 4 * to, copy_size |-> 4 * size,
   clear |-> clear, clear_from |-> OFFSET + 4 * cfrom, clear_to |-> OFFSET + 4 * cto]

\* A block of two words copied down onto a word of its own; a word of the block
\* cleared with the copy.
Backdoors ==
  {Strobe(1, 2, 1, 2, c, 2, 3) : c \in Bits} \cup {Strobe(0, 2, 1, 2, 0, 2, 3)}

Small == <<0, 1, 0, 1, 1, 0, 1>>
=============================================================================
