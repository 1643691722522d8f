------------------------------ MODULE MCVBlake ------------------------------
(* The header that miner_thread() carries as a comment, for TLC. *)
EXTENDS VBlake
MCHeader ==
  LET H == <<Word(\h798f, \h0200, \hb054, \h0000), Word(\hf889, \h40e7, \h7681, \hcbbd),
             Word(\h43b6, \h7ea9, \h6423, \h1229), Word(\hf2fe, \h6082, \hba63, \h4ed4),
             Word(\h7b7d, \h9eb0, \h35f8, \h6bd2), Word(\h205a, \hafea, \hbd6a, \hc03b),
             Word(\h3fc4, \ha45c, \h36e4, \h126c), Word(\h0000, \h0000, \h06d4, \h0207)>>
  IN  [k \in 0..7 |-> H[k + 1]]

\* The search of that header ends with the nonce the source notes beneath it
\* (veri-fm2l.cpp 776): 0x00b006a5 as the card reports it, 0x00b00624 less the 129
\* that miner_thread() takes off, and the hash has the difficulty's zeros.
KnownAnswer ==
  /\ pc # "none"
  /\ pc = "found" => nonce = \h00b00624 /\ hash = Word(\h9318, \h2459, \h0000, \h0000)
=============================================================================
