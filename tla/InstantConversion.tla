------------------------- MODULE InstantConversion --------------------------
(***************************************************************************)
(* The dates of an entity: in memory an Instant of nanoseconds, in its     *)
(* column what InstantAttributeConverter makes of it, a Date of whole      *)
(* milliseconds (the column itself is finer).                              *)
(*                                                                         *)
(* A row is stamped once, flushed when its transaction ends, and from then *)
(* on loaded and flushed again any number of times: the merge of           *)
(* accountRepository.delete flushes what was loaded before.                *)
(***************************************************************************)
EXTENDS Integers

CONSTANTS
    NanosPerMilli,
    MaxInstant,    \* bound on the clock
    NoDate         \* the row is not in the table

ASSUME NanosAssumption == NanosPerMilli \in Nat \ {0}
ASSUME MaxInstantAssumption == MaxInstant \in Nat
ASSUME NoDateAssumption == NoDate \notin Int

VARIABLES
    stamped,    \* the time of the request that created the row
    attribute,  \* the field of the entity in memory
    column

dateVars == <<stamped, attribute, column>>

Instant == 0..MaxInstant

-----------------------------------------------------------------------------
\* Variant: to the nearest millisecond.
ToNearest(instant) == (2 * instant + NanosPerMilli) \div (2 * NanosPerMilli)

\* Date.from rounds down.
ConvertToDatabaseColumn(instant) == instant \div NanosPerMilli

\* Variant: the value is taken for the end of its millisecond.
ToEndOfMilli(date) == date * NanosPerMilli + NanosPerMilli

\* Date.toInstant is exact.
ConvertToEntityAttribute(date) == date * NanosPerMilli

-----------------------------------------------------------------------------
\* The entity is built with the time of the request.
Stamp(now) ==
    /\ column = NoDate
    /\ stamped' = now
    /\ attribute' = now
    /\ UNCHANGED column

Flush ==
    /\ column' = ConvertToDatabaseColumn(attribute)
    /\ UNCHANGED <<stamped, attribute>>

Load ==
    /\ column # NoDate
    /\ attribute' = ConvertToEntityAttribute(column)
    /\ UNCHANGED <<stamped, column>>

Init ==
    /\ stamped \in Instant
    /\ attribute = stamped
    /\ column = NoDate

Next == (\E now \in Instant : Stamp(now)) \/ Flush \/ Load

Spec == Init /\ [][Next]_dateVars

-----------------------------------------------------------------------------
(***************************************************************************)
(* Properties                                                              *)
(***************************************************************************)
\* What is stored is not later than the stamp, and less than a millisecond
\* before it, however often the row was loaded and flushed again.
StoredJustBefore ==
    column # NoDate =>
        LET stored == ConvertToEntityAttribute(column) IN
        stored <= stamped /\ stamped < stored + NanosPerMilli

\* A date in the table never changes: neither the precision lost at the first
\* flush nor a later round makes it drift.
DateIsFinal == [][column # NoDate => column' = column]_dateVars

\* The inductive invariant: what is in memory is the stamp or what was stored,
\* and converts to the same date either way.
DateInv ==
    /\ stamped \in Instant
    /\ attribute \in Int
    /\ column \in Int \cup {NoDate}
    /\ ConvertToDatabaseColumn(attribute) = ConvertToDatabaseColumn(stamped)
    /\ column # NoDate => column = ConvertToDatabaseColumn(stamped)
    /\ column = NoDate => attribute = stamped

=============================================================================
