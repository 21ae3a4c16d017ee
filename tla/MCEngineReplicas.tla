--------------------------- MODULE MCEngineReplicas ---------------------------
EXTENDS EngineReplicas
CONSTANTS a, b
MCReplicas == {a, b}
RunsAndCancel == {<<a, "run">>, <<b, "run">>, <<b, "cancel">>}
RunsCancelSubmit == RunsAndCancel \union {<<a, "submit">>}
=============================================================================
