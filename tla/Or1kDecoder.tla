----------------------------- MODULE Or1kDecoder -----------------------------
(***************************************************************************)
(* models/wishbone/or1k: the descriptors of or1k_defs.hpp in the order of  *)
(* the list, and the parse of or1k_decoder.hpp, which takes the first one  *)
(* that matches.  A word is the set of its bits that are 1.                *)
(***************************************************************************)
EXTENDS Integers, Sequences, SequencesExt

Bit == 0 .. 31
Bits(n, shift) == {b \in shift .. shift + 11 : (n \div 2 ^ (b - shift)) % 2 = 1}

MASK_6BITS == 26 .. 31
MASK_8BITS == 24 .. 31
MASK_11BITS == 21 .. 31
MASK_16BITS == 16 .. 31
ALU_MASK_ARITH == MASK_6BITS \cup {8, 9} \cup 0 .. 3
ALU_MASK_LOGIC == MASK_6BITS \cup 6 .. 9 \cup 0 .. 3
SHIFTER_MASK == MASK_6BITS \cup {6, 7}
MAC_MASK == MASK_6BITS \cup 0 .. 3
ALU_MATCHER == Bits(\h38, 26)
SHIFTER_MATCHER == Bits(\h2e, 26)
MAC_MATCHER == Bits(\h31, 26)

\* Instructions that differ in one field of the word.
Family(mask, base, shift, regs, codes) ==
  [i \in 1 .. Len(codes) |->
     [rep |-> codes[i][1], mask |-> mask, regs |-> regs,
      matcher |-> base \cup Bits(codes[i][2], shift)]]
Op(regs, codes) == Family(MASK_6BITS, {}, 26, regs, codes)

DAB == <<"reg_d", "reg_a", "reg_b">>
DAI == <<"reg_d", "reg_a", "imm_i">>

Orbis ==
  Family(MASK_8BITS, {}, 24, <<"imm_k">>, <<<<"l.nop", \h15>>>>)
  \o Op(<<"reg_d", "reg_a", "imm_k">>, <<<<"l.mfspr", \h2d>>>>)
  \o Op(<<"reg_a", "reg_b", "imm_k2">>, <<<<"l.mtspr", \h30>>>>)
  \o Op(<<"reg_d", "imm_k">>, <<<<"l.movhi", 6>>>>)

Control ==
  Op(<<"imm_n">>, <<<<"l.j", 0>>>>)
  \o Op(<<"reg_b">>, <<<<"l.jr", \h11>>>>) \o Op(<<"imm_n">>, <<<<"l.jal", 1>>>>)
  \o Op(<<"reg_b">>, <<<<"l.jalr", \h12>>>>)
  \o Op(<<"imm_n">>, <<<<"l.bf", 4>>, <<"l.bnf", 3>>>>)

LoadStore ==
  Op(<<>>, <<<<"l.lwa", \h1b>>>>)
  \o Op(<<"reg_d", "imm_i", "reg_a">>,
        <<<<"l.lwz", \h21>>, <<"l.lws", \h22>>, <<"l.lhz", \h25>>, <<"l.lhs", \h26>>,
          <<"l.lbz", \h23>>, <<"l.lbs", \h24>>>>)
  \o Op(<<>>, <<<<"l.swa", \h33>>>>)
  \o Op(<<"imm_i2", "reg_a", "reg_b">>,
        <<<<"l.sw", \h35>>, <<"l.sh", \h37>>, <<"l.sb", \h36>>>>)

Extend ==
  Family(ALU_MASK_LOGIC, ALU_MATCHER, 0, <<"reg_d", "reg_a">>,
    <<<<"l.extwz", \h4d>>, <<"l.extws", \h0d>>, <<"l.exthz", \h8c>>, <<"l.exths", \h0c>>,
      <<"l.extbz", \hcc>>, <<"l.extbs", \h4c>>>>)

Arith(regs, codes) == Family(ALU_MASK_ARITH, ALU_MATCHER, 0, regs, codes)
Alu ==
  Arith(DAB, <<<<"l.add", 0>>, <<"l.addc", 1>>, <<"l.sub", 2>>, <<"l.and", 3>>, <<"l.or", 4>>,
               <<"l.xor", 5>>, <<"l.cmov", 14>>, <<"l.ff1", 15>>, <<"l.cmov", 14>>>>)
  \o Arith(<<>>, <<<<"l.ff1", 15>>>>) \o Arith(DAB, <<<<"l.fl1", \h10f>>>>)
  \o Family(ALU_MASK_LOGIC, ALU_MATCHER, 0, DAB,
       <<<<"l.sll", 8>>, <<"l.srl", \h108>>, <<"l.sra", \h208>>, <<"l.ror", \h308>>>>)
  \o Arith(DAB, <<<<"l.mul", \h306>>, <<"l.mulu", \h30b>>, <<"l.muld", \h307>>,
                  <<"l.muldu", \h30c>>, <<"l.div", \h309>>, <<"l.divu", \h30a>>>>)

AluImm ==
  Op(DAI, <<<<"l.addi", \h27>>, <<"l.addic", \h28>>>>)
  \o Op(<<"reg_d", "reg_a", "imm_k">>, <<<<"l.andi", \h29>>, <<"l.ori", \h2a>>>>)
  \o Op(DAI, <<<<"l.xori", \h2b>>, <<"l.muli", \h2c>>>>)
  \o Family(SHIFTER_MASK, SHIFTER_MATCHER, 6, <<"reg_d", "reg_a", "imm_l">>, <<<<"l.slli", 0>>>>)
  \o Family(SHIFTER_MASK, SHIFTER_MATCHER, 6, DAI,
       <<<<"l.srli", 1>>, <<"l.srai", 2>>, <<"l.rori", 3>>>>)

Compare(base, regs, names) ==
  LET code == <<0, 1, 2, 3, 4, 5, 10, 11, 12, 13>> IN
  Family(MASK_11BITS, {}, 21, regs, [i \in 1 .. 10 |-> <<names[i], base + code[i]>>])
Comparisons ==
  Compare(\h720, <<"reg_a", "reg_b">>,
    <<"l.sfeq", "l.sfne", "l.sfgtu", "l.sfgeu", "l.sfltu", "l.sfleu",
      "l.sfgts", "l.sfges", "l.sflts", "l.sfles">>)
  \o Compare(\h5e0, <<"reg_a", "imm_i">>,
       <<"l.sfeqi", "l.sfnei", "l.sfgtui", "l.sfgeui", "l.sfltui", "l.sfleui",
         "l.sfgtsi", "l.sfgesi", "l.sfltsi", "l.sflesi">>)

Mac ==
  Family(MAC_MASK, MAC_MATCHER, 0, <<>>,
    <<<<"l.mac", 1>>, <<"l.macu", 3>>, <<"l.msb", 2>>, <<"l.msbu", 4>>>>)
  \o Family(MASK_11BITS, {}, 21, <<>>, <<<<"l.maci", \h13>>>>)
  \o Family(MASK_6BITS \cup 0 .. 16, {16}, 26, <<>>, <<<<"l.macrc", 6>>>>)

System ==
  Family(MASK_16BITS, {29}, 16, <<>>, <<<<"l.sys", 0>>, <<"l.trap", 1>>>>)
  \o Family(Bit, {29}, 23, <<>>, <<<<"l.msync", 4>>, <<"l.psync", 5>>, <<"l.csync", 6>>>>)
  \o Op(<<>>, <<<<"l.rfe", 9>>>>)

descriptors ==
  Orbis \o Control \o LoadStore \o Extend \o Alu \o AluImm \o Comparisons \o Mac \o System

MatcherOnly(d, word) == d.matcher \subseteq word \* mutant: (word & matcher) == matcher

matches(d, word) == word \cap d.mask = d.matcher
Hits(word) == SelectSeq(descriptors, LAMBDA d : matches(d, word))
Invalid == [rep |-> "invalid-instruction", mask |-> {}, matcher |-> {}, regs |-> <<>>]
parse(word) == IF Hits(word) = <<>> THEN Invalid ELSE Hits(word)[1]

SameAsImmI == 0 .. 15 \* mutant: imm_i for the distance of every shift

imm_l == 0 .. 5

\* The bits that to_string shows for an operand; it does not know imm_i2.
Shown(r) ==
  CASE r = "reg_d" -> 21 .. 24 [] r = "reg_a" -> 16 .. 19 [] r = "reg_b" -> 11 .. 14
    [] r \in {"imm_i", "imm_k"} -> 0 .. 15 [] r = "imm_k2" -> 21 .. 24 \cup 0 .. 9
    [] r = "imm_l" -> imm_l [] r = "imm_n" -> 0 .. 25 [] OTHER -> {}

(***************************************************************************)
(* What the list hides, and what is printed twice.                         *)
(***************************************************************************)
\* Two descriptors match a word in common if they match the union of their
\* matchers: these words stand for all of them.
CommonWords ==
  {descriptors[i].matcher \cup descriptors[j].matcher :
     i \in 1 .. Len(descriptors), j \in 1 .. Len(descriptors)}
\* An instruction, and the one its words are taken for.
Hidden ==
  UNION {{<<d.rep, parse(w).rep>> : d \in
            {d \in ToSet(descriptors) : matches(d, w) /\ d.rep # parse(w).rep}} : w \in CommonWords}

\* Instructions with an operand that is cut out of their code.
ShowsItsCode ==
  {d.rep : d \in {d \in ToSet(descriptors) :
                    \E i \in 1 .. Len(d.regs) : Shown(d.regs[i]) \cap d.mask # {}}}
=============================================================================
