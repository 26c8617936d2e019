------------------------------ MODULE MCEndpoint ------------------------------
(* Values of the constants of Endpoint for TLC: a calendar of four short        *)
(* months, two policy sources of two warranty versions each, and two coils, the *)
(* older one shipped on the last day of its month.                              *)
EXTENDS Endpoint

Calendar == [m \in 0..3 |-> IF m = 1 THEN 2 ELSE 3]
Day(m, d) == [month |-> m, day |-> d]

\* The second source asks more of the coating.  Of its warranties the one for the older
\* coil ends before its full coverage does, and the other with it.
Version(n, from, to, duration, full) ==
    [version |-> n, from |-> from, to |-> to, duration |-> duration, full |-> full,
     excluded |-> {"marine"}, coast |-> 1, cap |-> 1]
Source(coating, durations, fulls) ==
    [specs |-> [grade |-> [coating_weight_g_m2 |-> [low |-> coating, high |-> 9],
                           yield_mpa |-> [low |-> 1, high |-> 2]]],
     warranties |-> {Version(1, Day(0, 1), Day(1, 1), durations[1], fulls[1]),
                     Version(2, Day(1, 1), Day(3, 3), durations[2], fulls[2])}]
PolicySources == <<Source(1, <<3, 4>>, <<1, 1>>), Source(2, <<0, 1>>, <<2, 1>>)>>

Shipped(ship, yield) ==
    [ship |-> ship, grade |-> "grade", tonnage |-> 2, price |-> 1,
     measured |-> [coating_weight_g_m2 |-> 1, yield_mpa |-> yield]]
CoilTable == [old |-> Shipped(Day(0, 3), 1), recent |-> Shipped(Day(1, 1), 3)]

Claim(type, coil, date, tonnage, freight, site) ==
    [id |-> "incoming", type |-> type, coil |-> coil, date |-> date, tonnage |-> tonnage,
     freight |-> freight, site |-> site, coast |-> 1, defect |-> 1, narrative |-> 1]
IncomingClaims ==
    {Claim(t, k, d, w, f, "inland") :
       t \in {"material_nonconformance", "coating_warranty"}, k \in {"old", "recent"},
       d \in {Day(0, 1), Day(0, 3)} \cup {Day(m, n) : m \in 1..3, n \in 1..2} \cup {Day(3, 3)},
       w \in {1, 3}, f \in {0, 2}}
    \cup {Claim("coating_warranty", "old", Day(1, 2), 1, 0, "marine"),
          Claim("other", "old", Day(1, 2), 1, 0, "inland"),
          Claim("coating_warranty", "lost", Day(1, 2), 1, 0, "inland")}

\* An identical claim, one told in the same words, and one like neither.
Other(id, freight, narrative) ==
    [Claim("coating_warranty", "old", Day(1, 1), 1, freight, "inland")
       EXCEPT !.id = id, !.narrative = narrative]
OtherClaims == {Other("same", 0, 1), Other("similar", 2, 1), Other("unlike", 0, 2)}
=============================================================================
