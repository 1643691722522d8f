---------------------------- MODULE MCHeaderBytes ----------------------------
(* Jobs of different bytes, with texts in small letters, in capitals and damaged. *)
EXTENDS HeaderBytes
Small(d) == IF d < 10 THEN 48 + d ELSE 87 + d
Capital(d) == IF d < 10 THEN 48 + d ELSE 55 + d

\* The bytes from, from + step, from + 2 * step ... in hexadecimal.
Hex(Letter(_), size, from, step) ==
  [k \in 1 .. 2 * size |->
     LET byte == (from + step * ((k - 1) \div 2)) % 256
     IN  Letter(IF k % 2 = 1 THEN byte \div 16 ELSE byte % 16)]

\* The block of the header noted in miner_thread(), and one that uses every byte
\* of its numbers.
MCJob == [height |-> \h54b0, version |-> 2, previous |-> Hex(Small, 24, 3, 7),
          second |-> Hex(Capital, 24, 200, 11), third |-> Hex(Small, 24, 77, 13),
          root |-> Hex(Small, 16, 1, 17), difficulty |-> \h0702d406,
          target |-> Hex(Small, 24, 0, 1)]
MCOther == [height |-> \h7f80ff01, version |-> \hfe01, previous |-> Hex(Capital, 24, 255, 10),
            second |-> Hex(Small, 24, 128, 3), third |-> Hex(Capital, 24, 9, 29),
            root |-> Hex(Capital, 24, 240, 5), difficulty |-> \h010080ff,
            target |-> Hex(Capital, 24, 250, 9)]

\* A damaged character, a character missing, and a byte missing.
MCJobs == {MCJob, MCOther, [MCJob EXCEPT !.second[40] = 103],
           [MCJob EXCEPT !.previous = Tail(@)], [MCJob EXCEPT !.target = Tail(Tail(@))]}
MCRoots == {Hex(Small, 16, 99, 31), Hex(Capital, 24, 171, 1), Hex(Small, 15, 1, 1)}
MCTimes == {\h5c36e412, \h00ff8001}

\* The nonce noted in miner_thread(), those whose answers mean something else,
\* the first thread's startNonce, and carries into each byte.
MCFinds == {<<0, 176, 6, 36>>, <<255, 255, 255, 127>>, <<63, 255, 255, 126>>,
            <<0, 0, 0, 64>>, <<0, 0, 0, 0>>, <<128, 0, 0, 200>>,
            <<18, 255, 255, 130>>, <<18, 52, 255, 255>>}
MCStartNonce == <<64, 0, 0, 0>>
=============================================================================
