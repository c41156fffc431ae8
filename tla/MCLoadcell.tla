----------------------------- MODULE MCLoadcell -----------------------------
EXTENDS ShelfUploads

\* A zone of two channels of 300 and 200 g: the left one loses 100 g, the
\* right one loses 100 g, both do, or a hand leans on the left one.
TwoChannels ==
    {<<300, 200>>, <<200, 200>>, <<300, 100>>, <<200, 100>>, <<360, 200>>, <<460, 200>>}
=============================================================================
