------------------------------- MODULE Advice -------------------------------
(***************************************************************************)
(* The two sources of advice: the prices of areas that Advisor quotes, and *)
(* the rows of market_data that Appraisal compares a property with.  The   *)
(* two share no variable.                                                  *)
(***************************************************************************)
EXTENDS Advisor

CONSTANTS Rows, RowOf, Subjects, Listings, ListingOf, Prices, Needed, Take, Shown,
          TrendRows, Recent, Plausible, Million  \* of Appraisal

(* The columns of a row are numbers, 0 where the code treats one as missing; *)
(* a row that is compared has a size, and so has what is asked about.        *)
ASSUME AppraisalAssumption ==
    /\ Rows \subseteq Nat /\ IsFiniteSet(Rows) /\ Recent \subseteq Rows
    /\ \A i \in Rows :
          /\ {RowOf[i].size, RowOf[i].usd, RowOf[i].syp} \subseteq Nat
          /\ RowOf[i].size > 0
    /\ \A s \in Subjects : {s.size, s.ask} \subseteq Nat \ {0}
    /\ \A k \in Listings : ListingOf[k].size \in Nat
    /\ Needed \in [1 .. 4 -> Nat \ {0}]
    /\ {Take, Shown, Fewest, TrendRows, Million} \subseteq Nat \ {0}
    /\ Prices \subseteq Nat

VARIABLES table, outlier, price, request

appraisalVars == <<table, outlier, price, request>>

P == INSTANCE Appraisal WITH req <- request

(* The properties of Appraisal (see there).                                 *)

(* An evaluation answers from the narrowest level that has enough           *)
(* comparables, and when none has, from the one that has most.              *)
NarrowestThatSuffices == P!NarrowestThatSuffices

(* A row like the subject that stayed in the table during the search is     *)
(* reason enough to answer with comparables.                                *)
PresentMeansFound == P!PresentMeansFound

(* Percentile, trend and speed of sale of one sample agree with each other. *)
InsightsAgree == P!InsightsAgree

(* Advice that is followed does what it says while the district stands      *)
(* still.                                                                   *)
FollowedAsAdvised == P!FollowedAsAdvised
=============================================================================
