----------------------------- MODULE MCDriverHw -----------------------------
(* Requests for a bit timing and directory trees on which DriverHw is checked. *)
EXTENDS DriverHw

Request(data, freq, bitrate, point, sjw) ==
  [data |-> data, freq |-> freq, bitrate |-> bitrate, sample_point |-> point,
   sjw |-> sjw, tq |-> 0, prop_seg |-> 0, phase_seg1 |-> 0, phase_seg2 |-> 0]

Segments(data, tq, prop, ph1, ph2, sjw) ==
  [data |-> data, freq |-> 100000000, bitrate |-> 0, sample_point |-> 0,
   sjw |-> sjw, tq |-> tq, prop_seg |-> prop, phase_seg1 |-> ph1, phase_seg2 |-> ph2]

MCRequests ==
  {Request(FALSE, freq, bitrate, point, 0) :
     freq \in {100000000, 24000000}, bitrate \in {2000, 125000, 900000, 1000000},
     point \in {0, 500, 750, 875, 990}}
  \union {Request(TRUE, 100000000, bitrate, point, sjw) :
            bitrate \in {1000000, 3000000, 5000000}, point \in {0, 800}, sjw \in {0, 40}}
  \union {Segments(FALSE, tq, prop, ph1, ph2, sjw) :
            tq \in {10, 2550, 2560}, prop \in {0, 1, 100, 127, 150}, ph1 \in {1, 63, 64, 90},
            ph2 \in {0, 1, 63, 64}, sjw \in {0, 5}}
  \union {Segments(TRUE, 20, prop, ph1, ph2, sjw) :
            prop \in {1, 63, 80}, ph1 \in {1, 31, 32}, ph2 \in {31, 32}, sjw \in {31, 32}}
  \union {Request(TRUE, 100000000, 10000000, 0, 0)}   \* default of the userspace tool

\* Two directories in the root, with devices below them and behind a bridge,
\* and a file between them; each may be a directory or not, and a device that
\* is looked for or another one.
MCTrees ==
  LET path == <<<<1>>, <<1, 2>>, <<1, 2, 3>>, <<1, 4>>, <<5>>, <<5, 6>>>>
      entries == [d \in 0..6 |-> CASE d = 0 -> <<1, 5>> [] d = 1 -> <<2, 4>>
                                    [] d = 2 -> <<3>> [] d = 5 -> <<6>> [] OTHER -> <<>>]
  IN {[entries |-> entries, path |-> path, pci |-> pci, dirs |-> dirs,
       ids |-> [d \in 1..6 |-> IF d \in match THEN "match"
                                ELSE IF d \in other THEN "other" ELSE "none"]] :
        pci \in SUBSET {1, 5}, dirs \in {1..6, 1..6 \ {2}, 1..6 \ {5}},
        match \in SUBSET {1, 2, 3, 4, 6}, other \in {{}, {3, 4}}}

MCBaseIds == {0, 1, 1023, 2047}
MCExtendedIds == {0, 1, 2^18 - 1, 2^18, 2^28, 2^29 - 1}

MCCounters == {0, 88, 95, 96, 120, 127, 128, 250, 255}
=============================================================================
