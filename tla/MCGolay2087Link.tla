------------------------- MODULE MCGolay2087Link -------------------------
(* Model-checking instance of Golay2087Link.                               *)
EXTENDS Golay2087Link

\* 26 information words: all-zero, all-one, every single set bit, every
\* single cleared bit and eight mixed patterns, so that each of the 8
\* information bits and each table row shape is exercised.
MCInfoWords ==
  {0, 255} \cup {2^k : k \in 0..7} \cup {255 - 2^k : k \in 0..7}
    \cup {\h5A, \hA5, \h3C, \hC3, \h0F, \hF0, \h69, \h96}

\* One bit error beyond the code's rated three, so that decode also meets
\* received vectors it cannot correct.
MCMaxBitErrors == 4
=============================================================================
