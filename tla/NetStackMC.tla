----------------------------- MODULE NetStackMC -----------------------------
EXTENDS NetStack, TLC

Own == <<6, 1>>
Router == <<6, 3>>
Near == <<6, 5>>
Other == <<6, 4>>
Far == <<2, 5>>
Hosts_ == {Router, Near, Other}
First == Router :> "a" @@ Near :> "b" @@ Other :> "d"
Asking == {Other}
Moving == {Router}
Away == {Far}

Values ==
  [r \in {"TimeOK", "Sensor"} |->
     IF r = "TimeOK" THEN [IP |-> Far, networkPort |-> 123, sntp |-> TRUE]
                     ELSE [IP |-> Near, networkPort |-> 7, sntp |-> FALSE]]
=============================================================================
