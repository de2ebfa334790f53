----------------------------- MODULE MCTerminal -----------------------------
EXTENDS Terminal

MCLetters == {"a", "b"}
MCPrompt == <<">">>
MCOutputs == {<<>>, <<"o", Newline>>, <<"o", Tabulator, "o", Return, "o", Rubout, Newline>>}
MCDocs == { <<<<"o">>, <<"w", "o", "r", "l", "d", "s">>, <<>>, <<"e", "n", "d">>>>,
            <<<<"o", "n", "e">>>> }
MCNoDocs == {}
=============================================================================
