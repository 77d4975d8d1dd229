----------------------------- MODULE MCProvider -----------------------------
EXTENDS Provider

MCReplies ==
    {[status |-> 200, error |-> "", bounded |-> TRUE, envelope |-> TRUE, finish |-> "stop",
      usage |-> TRUE, schema |-> TRUE],
     [status |-> 429, error |-> "", bounded |-> TRUE, envelope |-> TRUE, finish |-> "stop",
      usage |-> TRUE, schema |-> TRUE]}
=============================================================================
