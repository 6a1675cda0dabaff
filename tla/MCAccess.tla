------------------------------ MODULE MCAccess ------------------------------
(* Access for TLC: the roles worth telling apart. *)
EXTENDS Access

\* Nothing, all reading, all updating, the whole catalogue, and the finer permissions
\* that stored roles may still hold.
MCGrantChoices ==
  {{}, {p \in Catalog : p[2] = "read"}, {p \in Catalog : p[2] = "update"}, Catalog,
   {<<"users", "status.update">>, <<"users", "export">>, <<"providers", "updateStatus">>,
    <<"providerPayouts", "approve">>, <<"transactions", "receipt.download">>,
    <<"subscriptionPlans", "updateVisibility">>, <<"subscriptionPlans", "update">>,
    <<"reviews", "moderate">>, <<"reviews", "hide">>}}
=============================================================================
