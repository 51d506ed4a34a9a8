-------------------------------- MODULE MCFeeds --------------------------------
(* A model-checking instance of Feeds.                                     *)
EXTENDS Feeds

OneUrl == [f \in Feeds |-> "url"]
\* A document with two entries of one URL.
OneDocument == {<< <<"guid1", "url1">>, <<"guid2", "url1">> >>}
===============================================================================
