--------------------------- MODULE MCApolloConfig ---------------------------
(* Small instances of ApolloConfig. *)
EXTENDS ApolloConfig

MCTopics  == {"t1", "t2"}
MCOneHost == {"h1"}
MCOnePort == {"p1"}
GetFault  == {"get"}
=============================================================================
