----------------------------- MODULE MCAppraisal -----------------------------
(* Six rows of market_data in two districts, of which one is of another    *)
(* type, one has no price in dollars and one none in Syrian pounds, and one *)
(* listing with prices on either side of the market's.  The advisor's own   *)
(* prices, which have tables of their own, stand still.                     *)
EXTENDS Advice, TLC

CONSTANTS r1, mazzeh, midan, k1

Row(district, kind, size, beds, usd, syp) ==
    [district |-> district, kind |-> kind, size |-> size, beds |-> beds,
     usd |-> usd, syp |-> syp]
MCRowOf == << Row(mazzeh, "apartment", 100, 3, 9, 100),
              Row(mazzeh, "apartment", 120, None, 12, 60),
              Row(midan, "house", 155, 3, 5, 0),
              Row(midan, "apartment", 130, 2, 7, 90),
              Row(mazzeh, "apartment", 145, 3, 0, 130),
              Row(mazzeh, "apartment", 110, 3, 9, 30) >>
MCSubjects == {[district |-> mazzeh, kind |-> "apartment", size |-> 100, beds |-> 3, ask |-> 9500],
               [district |-> None, kind |-> "apartment", size |-> 100, beds |-> None, ask |-> 700]}
MCListingOf == k1 :> [city |-> "Damascus", district |-> mazzeh, size |-> 100]
MCNeeded == <<2, 2, 2, 1>>

(* A price is of no interest to a request that is not about a listing.      *)
OfListing == {"analyze", "advised", "estimate", "update"}
MCNext ==
    /\ P!Next /\ UNCHANGED vars
    /\ price' # price => \E r \in Reqs : request[r].pc \in OfListing
MCSpec == P!Init /\ Init /\ [][MCNext]_<<vars, appraisalVars>>
=============================================================================
