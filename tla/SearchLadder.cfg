SPECIFICATION Spec
CONSTANTS
    laptops = laptops
    laptop = laptop
    phones = phones
    samsung = samsung
    tv = tv
    Laptops = Laptops
    Phones = Phones
    Word <- MCWord
    Category <- MCCategory
    Letters <- MCLetters
    Canon <- MCCanon
    CategoryOf <- MCCategoryOf
    MaxRetries = 1
    MaxWords = 3
    None = None
INVARIANTS
    TypeOK
    HonestAnswer
    LadderBounded
CHECK_DEADLOCK FALSE
