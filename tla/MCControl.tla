----------------------------- MODULE MCControl ------------------------------
EXTENDS Control

\* v1.2, v1.10, a tag that is no version and v2, for a build of v1.9.
MCTags == << <<1, 2>>, <<1, 10>>, <<>>, <<2>> >>
MCAssets == << {"exe"}, {"zip", "exe"}, {"zip"}, {"zip", "other"} >>
MCCurrent == <<1, 9, 3>>

\* A link, one that does not parse, and a subscription of three with one that
\* does not.
MCInputs == {<<TRUE>>, <<FALSE>>, <<TRUE, FALSE, TRUE>>}
=============================================================================
