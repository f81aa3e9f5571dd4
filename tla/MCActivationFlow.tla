-------------------------- MODULE MCActivationFlow --------------------------
EXTENDS ActivationFlow

Algorithms == {"Reference", "FusedInplace"} \X {"Reference", "FusedBiasRelu", "InplaceFusedBiasRelu"}
                \X {"Learned", "None", "Rope"}
ConfigsOf == {[attention |-> a[1], ffn |-> a[2], position |-> a[3], bf16 |-> b[1], probe_loss |-> b[2]] :
                a \in Algorithms, b \in {<<TRUE, FALSE>>, <<FALSE, TRUE>>}}
=============================================================================
