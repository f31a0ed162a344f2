---------------------------- MODULE MCControlPlane ----------------------------
(* Two organizations, of one or of two principals, a role and two keys each:  *)
(* another tenant's and another key's accounts are there to be confused with. *)
(* One organization and one key have the name that a flag without a value     *)
(* stands for.                                                                *)
EXTENDS CliControl

MCMasks == {{0}, {5}}

MCKeyIds == {<<"sha256", "acme-key-1">>, <<"sha256", "true">>}

MCPolicyInputs == {[number |-> {0}], [number |-> {5}],
                   [labels |-> {"metrics:read"}], [labels |-> {"true"}]}
MCPersistent == {<<"acme", "reader", "acme-key-1">>}
=============================================================================
