----------------------------- MODULE MCActionExecution -----------------------------
EXTENDS ActionExecution

\* Page P loads Users and then Orders, which needs them; Q has a Users too.
MCActions == {"pu", "po", "qu"}
MCNames == {"Users", "Orders"}
MCName == [pu |-> "Users", po |-> "Orders", qu |-> "Users"]
MCPages == {"P", "Q"}
MCPageOf == [pu |-> "P", po |-> "P", qu |-> "Q"]
MCOnLoad == [P |-> <<{"pu"}, {"po"}>>, Q |-> <<{"qu"}>>]
MCReads == [pu |-> {}, po |-> {"Users"}, qu |-> {}]
MCConfirms == {"qu"}
===============================================================================
