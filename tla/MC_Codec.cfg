\* Every (bin[5], bin[35]) pair over a background of distinct bytes.
SPECIFICATION Spec
INVARIANT CarriesKey
INVARIANT CodecMatchesReference
