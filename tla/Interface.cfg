\* Two members in 13 tokens and lines, of which three at most are lines.
SPECIFICATION Spec
CONSTANTS
    MemberNames = {"A", "B"}
    FieldNames = {"a", "b"}
    QualifiedNames = {"i.i.A"}
    InterfaceNames = {"i.i", "j.j"}
    WordsAt <- MCWordsAt
    MaxTokens = 13
    MaxLayout = 3
INVARIANTS TypeOK AcceptsInterfaces CommentsInOrder RoundTrip DescribedIsCallable
