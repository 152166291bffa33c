------------------------------ MODULE MCUsers ------------------------------
(* Constants of the runs of Users.                                         *)
EXTENDS Users, TLC

CONSTANTS c1, c2, c3, r1, r2, u1, u2, ada, bob, lower, upper, other, nodot, blank, nothing

TwoOnOne == [c \in {c1, c2, c3} |-> IF c = c3 THEN r2 ELSE r1]

(* The same address in two cases, another one, and one NewEmail refuses.   *)
LowerCase == [e \in {lower, upper, other, nodot} |->
                IF e = upper THEN lower ELSE IF e = nodot THEN nothing ELSE e]

Creates == {[name |-> ada, email |-> lower], [name |-> bob, email |-> upper],
            [name |-> bob, email |-> nodot]}
Updates == {[id |-> u1, name |-> bob, email |-> nothing],
            [id |-> u1, name |-> nothing, email |-> other],
            [id |-> u2, name |-> blank, email |-> upper]}

(* Two callers of one replica are alike.                                    *)
CallersAlike == Permutations({c1, c2})
=============================================================================
