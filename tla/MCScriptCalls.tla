----------------------------- MODULE MCScriptCalls -----------------------------
EXTENDS ScriptCalls

MCNames == {"a", "b"}
================================================================================
