---------------------------- MODULE MCSlideShow -----------------------------
EXTENDS SlideShow
=============================================================================
