---------------------------- MODULE PacketNumbers ----------------------------
(***************************************************************************)
(* The packet numbers of one CryptoDxState of native/h3/files/neqo/        *)
(* neqo-transport/src/crypto.rs: used_pn = lo .. hi - 1 and min_pn = min,  *)
(* fields of the record that stands for the keys.                          *)
(***************************************************************************)
EXTENDS Integers

Unused(dx) == dx.lo = dx.hi

\* Mutant: the numbers already used are forgotten.
Continuation_Forgets(dx, prev) == dx

\* Mutant: the last number used is taken for the next one.
Continuation_Last(dx, prev) ==
    [dx EXCEPT !.min = prev.hi - 1,
               !.lo = IF Unused(dx) THEN prev.hi - 1 ELSE @,
               !.hi = IF Unused(dx) THEN prev.hi - 1 ELSE @]

\* Mutant: adjacent ranges count as overlapping.
Overlaps_Adjacent(dx, prev) == ~Unused(dx) /\ prev.hi >= dx.lo

\* continuation: go on after the numbers prev used; an overlap is an error, found after
\* min was moved.
Overlaps(dx, prev) == ~Unused(dx) /\ prev.hi > dx.lo
Continuation(dx, prev) ==
    [dx EXCEPT !.min = prev.hi,
               !.lo = IF Overlaps(dx, prev) THEN @ ELSE prev.hi,
               !.hi = IF Unused(dx) THEN prev.hi ELSE @]

\* used(pn), once pn >= min holds.
UsedPn(dx, pn) ==
    [dx EXCEPT !.lo = IF Unused(dx) THEN pn ELSE @,
               !.hi = IF pn + 1 > @ THEN pn + 1 ELSE @]
=============================================================================
