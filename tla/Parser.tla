-------------------------------- MODULE Parser --------------------------------
(***************************************************************************)
(* What a cron specification says                                          *)
(* (vendor/github.com/ringtail/go-cron/parser.go): Parse turns it into a   *)
(* schedule, a set of values for each of its fields, or refuses it.  Both  *)
(* the plan of a job and every exclude date go through it.                 *)
(*                                                                         *)
(* The text is abstracted by its parts.  A specification is one of         *)
(*   [kind |-> "fields", fields |-> f]   six fields, each a list of ranges *)
(*   [kind |-> "hourly"] ... "yearly"    the descriptors                   *)
(*   [kind |-> "every", delay |-> d]     "@every d"                        *)
(*   [kind |-> "date", at |-> v]         "@date": v names one time, and    *)
(*                                       its year with it                  *)
(*   [kind |-> "unreadable"]             a number, a word or a count of    *)
(*                                       fields that is no specification   *)
(* and a range [star, low, high, step] is "*" or low[-high] with [/step],  *)
(* where high and step may be Omitted.  A missing sixth field is a star.   *)
(***************************************************************************)
EXTENDS Naturals, Sequences

CONSTANTS Low, High,   \* the first and last value of each field
          Omitted      \* the part a range does not have

\* The fields, which are also the loops of Next; 0 is the year, which no
\* specification names.
Year == 0  Month == 1  Day == 2  Hour == 3  Minute == 4  Second == 5
Dow == 6

Fields == Month .. Dow

ASSUME BoundsAssumption ==
    /\ Low \in [Fields -> Nat]
    /\ High \in [Fields -> Nat]
    /\ \A f \in Fields : Low[f] <= High[f]
    /\ Omitted \notin Nat

Ranges == [star : BOOLEAN, low : Nat, high : Nat \cup {Omitted}, step : Nat \cup {Omitted}]

\* field gives the values of each field; star is that of the day of the month
\* or of the day of the week, the only ones Next asks for.
Schedules == [field : [Fields -> SUBSET Nat], star : BOOLEAN]

-------------------------------------------------------------------------------
\* getRange: "N/step" means "N-max/step".
First(r, f) == IF r.star THEN Low[f] ELSE r.low

Last(r, f) ==
    IF r.star \/ (r.high = Omitted /\ r.step # Omitted) THEN High[f]
    ELSE IF r.high = Omitted THEN r.low ELSE r.high

Step(r) == IF r.step = Omitted THEN 1 ELSE r.step

\* Mutant: the end of a range is not compared with the last value.
RangeOKUnbounded(r, f) ==
    /\ Low[f] <= First(r, f)
    /\ First(r, f) <= Last(r, f)
    /\ Step(r) # 0

RangeOK(r, f) ==
    /\ Low[f] <= First(r, f)
    /\ Last(r, f) <= High[f]
    /\ First(r, f) <= Last(r, f)
    /\ Step(r) # 0

\* getBits.
Bits(r, f) == {v \in First(r, f) .. Last(r, f) : (v - First(r, f)) % Step(r) = 0}

\* getField: the ranges of a list are united; an empty list (",") is accepted
\* and stands for no value.
Field(rs, f) == UNION {Bits(rs[k], f) : k \in DOMAIN rs}

FieldOK(rs, f) == \A k \in DOMAIN rs : RangeOK(rs[k], f)

Starred(rs) == \E k \in DOMAIN rs : rs[k].star

\* all: every value of a field, with the star.
All(f) == Low[f] .. High[f]

-------------------------------------------------------------------------------
\* parseDescriptor: the first value of every field finer than what it names.
Descriptors == {"hourly", "daily", "weekly", "monthly", "yearly"}

Free(kind) ==
    CASE kind = "hourly"  -> {Hour, Day, Month, Dow}
      [] kind = "daily"   -> {Day, Month, Dow}
      [] kind = "weekly"  -> {Day, Month}
      [] kind = "monthly" -> {Month, Dow}
      [] kind = "yearly"  -> {Dow}

Descriptor(kind) ==
    [field |-> [f \in Fields |-> IF f \in Free(kind) THEN All(f) ELSE {Low[f]}],
     star  |-> TRUE]

\* parseDateSchedule: the fields of the date, but not its year.
DateSchedule(at) ==
    [field |-> [f \in Fields |-> IF f = Dow THEN All(f) ELSE {at[f]}],
     star  |-> TRUE]

\* The forms of a specification.
Specs ==
    [kind : {"fields"}, fields : [Fields -> Seq(Ranges)]]
        \cup [kind : Descriptors \cup {"unreadable"}]
        \cup [kind : {"every"}, delay : Nat]
        \cup [kind : {"date"},
              at : {v \in [Month .. Second -> Nat] : \A f \in Month .. Second : v[f] \in All(f)}]

\* Parser.Parse: whether it accepts, and the schedule it returns.
Accepts(spec) ==
    /\ spec.kind # "unreadable"
    /\ spec.kind = "fields" => \A f \in Fields : FieldOK(spec.fields[f], f)

Parse(spec) ==
    CASE spec.kind = "fields" ->
            [field |-> [f \in Fields |-> Field(spec.fields[f], f)],
             star  |-> Starred(spec.fields[Day]) \/ Starred(spec.fields[Dow])]
      [] spec.kind = "date" -> DateSchedule(spec.at)
      [] spec.kind \in Descriptors -> Descriptor(spec.kind)
===============================================================================
