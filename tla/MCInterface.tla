---------------------------- MODULE MCInterface ------------------------------
\* The words that are tried at a place of a text.
EXTENDS Documents

MCWordsAt(at) ==
    CASE at = "interface"       -> {"interface", "A"}
      [] at = "name"            -> {"i.i", "A"}
      [] at = "member"          -> {"type", "method", "error", "A"}
      [] at = "member name"     -> {"A", "B", "type"}
      [] at = "type"            -> {"object", "A", "B", "i.i.A"}
      [] at = "bracket"         -> {"string", "A"}
      [] at \in {"open", "field"} -> {"a", "interface", "i.i"}
      [] OTHER                  -> {"A"}
=============================================================================
