---------------------- MODULE InstantConversionProofs -----------------------
(***************************************************************************)
(* Theorems about InstantConversion, for every precision and every time.   *)
(***************************************************************************)
EXTENDS InstantConversion, TLAPS

\* What Date.from cuts off is less than a millisecond, also before 1970.
LEMMA FloorBound ==
    ASSUME NEW i \in Int
    PROVE  /\ ConvertToDatabaseColumn(i) \in Int
           /\ ConvertToDatabaseColumn(i) * NanosPerMilli \in Int
           /\ ConvertToDatabaseColumn(i) * NanosPerMilli <= i
           /\ i < ConvertToDatabaseColumn(i) * NanosPerMilli + NanosPerMilli
<1> DEFINE q == i \div NanosPerMilli
<1>1. NanosPerMilli \in Nat /\ NanosPerMilli > 0
  BY NanosAssumption
<1>2. q \in Int /\ q * NanosPerMilli <= i /\ i < q * NanosPerMilli + NanosPerMilli
  BY <1>1
<1> HIDE DEF q
<1>3. QED
  BY <1>1, <1>2 DEF ConvertToDatabaseColumn, q

\* A multiple of the precision that lies in the millisecond d is d's beginning.
LEMMA FloorUnique ==
    ASSUME NEW i \in Int, NEW d \in Int,
           d * NanosPerMilli <= i, i < d * NanosPerMilli + NanosPerMilli
    PROVE  ConvertToDatabaseColumn(i) = d
<1> DEFINE q == ConvertToDatabaseColumn(i)
<1>1. NanosPerMilli \in Nat /\ NanosPerMilli > 0
  BY NanosAssumption
<1>2. q \in Int /\ q * NanosPerMilli <= i /\ i < q * NanosPerMilli + NanosPerMilli
  BY FloorBound
<1> HIDE DEF q
<1>3. /\ (d - q) * NanosPerMilli < NanosPerMilli
      /\ (q - d) * NanosPerMilli < NanosPerMilli
  BY <1>1, <1>2
<1>4. d - q < 1 /\ q - d < 1
  BY <1>1, <1>2, <1>3
<1>5. q = d
  BY <1>2, <1>4
<1>6. QED
  BY <1>5 DEF q

\* What was read back converts to the date it came from.
LEMMA RoundTrip ==
    ASSUME NEW d \in Int
    PROVE  ConvertToDatabaseColumn(ConvertToEntityAttribute(d)) = d
  BY NanosAssumption, FloorUnique DEF ConvertToEntityAttribute

\* Of two instants the later one never gets the earlier date: rows keep the
\* order of their creation, up to ties.
THEOREM OrderIsKept ==
    ASSUME NEW i \in Int, NEW j \in Int, i <= j
    PROVE  ConvertToDatabaseColumn(i) <= ConvertToDatabaseColumn(j)
<1> DEFINE p == ConvertToDatabaseColumn(i)
           q == ConvertToDatabaseColumn(j)
<1>1. NanosPerMilli \in Nat /\ NanosPerMilli > 0
  BY NanosAssumption
<1>2. /\ p \in Int /\ p * NanosPerMilli <= i
      /\ q \in Int /\ j < q * NanosPerMilli + NanosPerMilli
  BY FloorBound
<1> HIDE DEF p, q
<1>3. (p - q) * NanosPerMilli < NanosPerMilli
  BY <1>1, <1>2
<1>4. p - q < 1
  BY <1>1, <1>2, <1>3
<1>5. p <= q
  BY <1>2, <1>4
<1>6. QED
  BY <1>5 DEF p, q

-----------------------------------------------------------------------------
\* A row that was not flushed yet.
LEMMA InitDate == Init => DateInv
  BY MaxInstantAssumption, NoDateAssumption DEF Init, DateInv, Instant

\* Every stamp, flush and load preserves the invariant.
LEMMA NextDate == DateInv /\ [Next]_dateVars => DateInv'
<1> SUFFICES ASSUME DateInv, [Next]_dateVars PROVE DateInv'
  OBVIOUS
<1>1. ASSUME NEW now \in Instant, Stamp(now) PROVE DateInv'
  BY <1>1, MaxInstantAssumption DEF Stamp, DateInv, Instant
<1>2. CASE Flush
  <2>1. ConvertToDatabaseColumn(attribute) \in Int
    BY FloorBound DEF DateInv
  <2>2. QED
    BY <1>2, <2>1, NoDateAssumption DEF Flush, DateInv
<1>3. CASE Load
  <2>1. column \in Int
    BY <1>3 DEF Load, DateInv
  <2>2. ConvertToEntityAttribute(column) \in Int
    BY <2>1, NanosAssumption DEF ConvertToEntityAttribute
  <2>3. QED
    BY <1>3, <2>1, <2>2, RoundTrip DEF Load, DateInv
<1>4. CASE UNCHANGED dateVars
  BY <1>4 DEF dateVars, DateInv
<1>5. QED
  BY <1>1, <1>2, <1>3, <1>4 DEF Next

\* DateInv holds throughout.
THEOREM DateInvariance == Spec => []DateInv
  BY InitDate, NextDate, PTL DEF Spec

\* A stored date is the stamp up to the precision of a Date, and never later.
THEOREM DatesAreJustBefore == Spec => []StoredJustBefore
<1>1. DateInv => StoredJustBefore
  <2> SUFFICES ASSUME DateInv, column # NoDate
               PROVE  /\ column * NanosPerMilli <= stamped
                      /\ stamped < column * NanosPerMilli + NanosPerMilli
    BY DEF StoredJustBefore, ConvertToEntityAttribute
  <2>1. stamped \in Int /\ column = ConvertToDatabaseColumn(stamped)
    BY MaxInstantAssumption DEF DateInv, Instant
  <2>2. QED
    BY <2>1, FloorBound
<1>2. QED
  BY <1>1, DateInvariance, PTL

\* No date in the table ever changes.
THEOREM DatesAreFinal == Spec => DateIsFinal
<1>1. DateInv /\ [Next]_dateVars => [column # NoDate => column' = column]_dateVars
  BY DEF DateInv, Next, Stamp, Flush, Load
<1>2. QED
  BY <1>1, DateInvariance, PTL DEF Spec, DateIsFinal
=============================================================================
