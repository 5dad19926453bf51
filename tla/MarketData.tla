----------------------------- MODULE MarketData -----------------------------
(***************************************************************************)
(* The two ways market data come in: the rows and prices of Market, and    *)
(* the observations and baselines of other publishers (External), which    *)
(* have tables of their own.  The two share no variable.                   *)
(***************************************************************************)
EXTENDS Market, Integers, Sequences

CONSTANTS Orders, MaxMonth  \* of External

(* What may be asked of External: a line names a source by its number; the *)
(* columns of numbers are numbers or missing.                              *)
ASSUME ExternalAssumption ==
    /\ MaxMonth \in Nat
    /\ \A o \in Orders :
          /\ o = [does |-> o.does, lines |-> o.lines, months |-> o.months, reliability |-> o.reliability]
          /\ o.does \in {"source", "observe", "import", "rebuild"}
          /\ o.lines \in Seq({o.lines[i] : i \in DOMAIN o.lines})
          /\ o.does \in {"source", "rebuild"} => o.lines = <<>>
          /\ {o.months, o.reliability} \subseteq Int \cup {None}
          /\ \A i \in DOMAIN o.lines :
                LET line == o.lines[i]
                IN /\ line = [source |-> line.source, place |-> line.place,
                              value |-> line.value, published |-> line.published]
                   /\ {line.value, line.published} \subseteq Int \cup {None}

VARIABLES month, sources, observations, baseline, request, together

externalVars == <<month, sources, observations, baseline, request, together>>

X == INSTANCE External WITH Requests <- Reqs

(* The external baseline tells the middle of its observations, and has     *)
(* those of the imports answered (see External).                           *)
BaselineTells == X!BaselineTells
=============================================================================
