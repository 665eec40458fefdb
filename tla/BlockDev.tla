------------------------------ MODULE BlockDev ------------------------------
(* What a block device promises to the file systems on it (the read and       *)
(* write members of struct block_device): a read returns the number of        *)
(* sectors it delivered, with their present contents, or an error; a write    *)
(* stores a prefix of what it was given.                                      *)
EXTENDS Integers

CONSTANTS DeviceSectors, MaxCount, Values

VARIABLES dev,  \* contents of the device
          out   \* what the last call returned: [call, sector, count, ret, data]

Sectors == 0 .. DeviceSectors - 1

(* The first n sectors from s on.                                             *)
Prefix(s, n) == [i \in 0 .. n - 1 |-> dev[s + i]]

Init == /\ dev \in [Sectors -> Values]
        /\ out = [call |-> "none", sector |-> 0, count |-> 0, ret |-> 0,
                  data |-> [i \in {} |-> 0]]

Read(s, c) ==
  \E r \in -1 .. c :
    /\ s + r <= DeviceSectors
    /\ out' = [call |-> "read", sector |-> s, count |-> c, ret |-> r,
               data |-> Prefix(s, r)]
    /\ UNCHANGED dev

Write(s, c) ==
  \E n \in 0 .. c, r \in -1 .. c :
    /\ s + n <= DeviceSectors
    /\ r \in {-1, n}
    /\ out' = [call |-> "write", sector |-> s, count |-> c, ret |-> r,
               data |-> [i \in {} |-> 0]]
    /\ \E buffer \in [0 .. n - 1 -> Values] :
         dev' = [x \in Sectors |-> IF x \in s .. s + n - 1 THEN buffer[x - s]
                                  ELSE dev[x]]

Next == \E s \in 0 .. DeviceSectors, c \in 1 .. MaxCount : Read(s, c) \/ Write(s, c)

Spec == Init /\ [][Next]_<<dev, out>>
=============================================================================
